---- MODULE Spec2Model ----
(***************************************************************************)
(* Gamification and progress tracking of the tutoring platform             *)
(* (src/database.py).  Every Database method opens its own psycopg2        *)
(* connection, i.e. its own PostgreSQL transaction (READ COMMITTED): a     *)
(* SELECT sees the committed rows plus the transaction's own writes, an    *)
(* UPDATE takes the row lock and holds it until the transaction ends, a    *)
(* failed statement aborts the transaction, and COMMIT of an aborted       *)
(* transaction rolls it back without raising.  The clock is an input: each  *)
(* call sees the date datetime.now().date() gives it, and nothing orders    *)
(* the dates of two calls (hosts differ, clocks are set back).              *)
(***************************************************************************)
EXTENDS Integers, Sequences, FiniteSets, TLC

\* ------------------------------------------------------------------ bounds
MaxCalls == 2
MaxFaults == 1

\* ---------------------------------------------------------------- universe
Procs == {1, 2}
Students == {"s1"}
\* points as callers pass them, and one value no caller should pass
Points == {-10, 10}
\* dates the clock can give; snapshots were last active on day 1, so every
\* days_diff occurs: -2, -1, 0, 1 and 2
Days == {0, 2}
NoDate == -1
FaultKinds == {"none", "stmt", "conn"}
Subject == "Math"
Topics == {"t1", "t2"}
Feedbacks ==
  { <<"C", "o", "r", "r", "e", "c", "t", "!">>,
    <<"W", "r", "o", "n", "g", ".">> }

BadgeOrder ==
  <<"Century", "Champion", "Legend", "Week Warrior", "Month Master",
    "Rising Star", "Superstar">>
BadgeNames == {BadgeOrder[i] : i \in 1..Len(BadgeOrder)}

NoRow == [exists |-> FALSE]

Row(tp, lv, st, lg, ld) ==
  [exists |-> TRUE, total_points |-> tp, level |-> lv, current_streak |-> st,
   longest_streak |-> lg, last_activity_date |-> ld]

\* INSERT INTO student_gamification (student_id): every other column takes
\* its default.
NewProfile == Row(0, 1, 0, 0, NoDate)

NoBadges == [b \in BadgeNames |-> 0]

\* Snapshots a student can have reached by earlier add_points calls.
InitProfiles ==
  { [row |-> NoRow, badges |-> NoBadges],
    [row |-> Row(95, 1, 6, 6, 1), badges |-> NoBadges] }

VARIABLES
  gam,            \* student_gamification, committed rows
  badges,         \* badges, committed: number of rows per (student, name)
  notifications,  \* notifications of type "achievement", committed, per user
  lock,           \* worker holding the lock of a student_gamification row, or 0
  pc,             \* position of each worker
  op,             \* arguments of the call a worker runs
  rd,             \* row fetched by the SELECT of add_points
  td,             \* local today: datetime.now().date() as the call saw it
  cs,             \* local current_streak
  ls,             \* local longest_streak
  tx,             \* uncommitted writes of the worker's transaction
  award,          \* badges_to_award still to insert
  conn,           \* "ok", "aborted" (a statement failed) or "lost"
  ret,            \* value returned by the call
  kind,           \* the method the worker was called with
  progress,       \* student_progress, committed rows; the id is the index
  sp,             \* arguments and is_correct of save_practice_result
  spres,          \* row fetched by the SELECT of save_practice_result
  ptx,            \* uncommitted write of the save_practice_result transaction
  plk,            \* id of the student_progress row the worker has locked
  init0,          \* history: the snapshot the student started from
  requested,      \* history: sum of the points of the calls made, per student
  faulted,        \* history: a failure was injected into the worker's call
  faults,         \* history: number of failures injected
  raced,          \* history: a call read the row while another was in flight
  calls,          \* history: number of calls made
  credited,       \* history: the add_points of the running call committed
                  \* its UPDATE
  quiz,           \* quiz_attempts, committed: the attempt under grading
  eq,             \* arguments and uncommitted write of evaluate_quiz_attempt
  sample,         \* a text handed to the classifier or to the extractor
  out,            \* what the text functions returned for the sample
  view            \* the tables a dashboard query reads, and what it returned

apLocals == <<rd, td, cs, ls, award, conn>>
spVars == <<sp, spres, ptx, plk>>
hist == <<init0, requested, faulted, faults, raced, calls>>
quizVars == <<quiz, eq>>

textVars == <<sample, out, view>>

dbVars ==
  <<gam, badges, notifications, lock, pc, op, rd, td, cs, ls, tx,
    award, conn, ret, kind, progress, sp, spres, ptx, plk, init0, requested,
    faulted, faults, raced, calls, credited, quiz, eq>>

vars == <<dbVars, textVars>>

NoTx == [row |-> NoRow, badges |-> NoBadges, notifications |-> 0]

NoOp == [student |-> "s1", points |-> 0]

NoSp ==
  [student |-> "s1", subject |-> Subject, topic |-> "t1", feedback |-> <<>>,
   is_correct |-> FALSE]

NoRes == [id |-> 0, attempts |-> 0, correct_attempts |-> 0]

NoWrite == [kind |-> "none"]

\* No quiz attempt on record; score -1 stands for a NULL score.
NoAttempt ==
  [exists |-> FALSE, student_id |-> "s1", total_marks |-> 0, score |-> -1]

NoEq == [score |-> 0, bonus |-> 0, locked |-> FALSE]

NoSample ==
  [kind |-> "none", text |-> <<>>, start |-> "other", neg |-> FALSE,
   pos |-> FALSE, found |-> FALSE, pieces |-> <<>>, expect |-> <<>>]

NoOut ==
  [db |-> "none", eval |-> "none", extracted |-> FALSE, weak_areas |-> <<>>]

NoView ==
  [analyses |-> <<>>, rows |-> <<>>, have_history |-> FALSE,
   weak_topics |-> <<>>, have_progress |-> FALSE, failed |-> FALSE,
   topics_with_progress |-> <<>>]

\* The database and the workers before any request, with the given
\* student_progress rows and quiz attempt on record.
InitWith(rows, attempt) ==
  /\ \E ip \in InitProfiles :
       /\ gam = [s \in Students |-> ip.row]
       /\ badges = [s \in Students |-> ip.badges]
       /\ init0 = ip
  /\ notifications = [s \in Students |-> 0]
  /\ lock = [s \in Students |-> 0]
  /\ pc = [p \in Procs |-> "idle"]
  /\ op = [p \in Procs |-> NoOp]
  /\ rd = [p \in Procs |-> NoRow]
  /\ td = [p \in Procs |-> 0]
  /\ cs = [p \in Procs |-> 0]
  /\ ls = [p \in Procs |-> 0]
  /\ tx = [p \in Procs |-> NoTx]
  /\ award = [p \in Procs |-> <<>>]
  /\ conn = [p \in Procs |-> "ok"]
  /\ ret = [p \in Procs |-> "none"]
  /\ kind = [p \in Procs |-> "add_points"]
  /\ progress = rows
  /\ sp = [p \in Procs |-> NoSp]
  /\ spres = [p \in Procs |-> NoRes]
  /\ ptx = [p \in Procs |-> NoWrite]
  /\ plk = [p \in Procs |-> 0]
  /\ requested = [s \in Students |-> 0]
  /\ faulted = [p \in Procs |-> FALSE]
  /\ faults = 0
  /\ raced = FALSE
  /\ calls = 0
  /\ credited = [p \in Procs |-> FALSE]
  /\ quiz = attempt
  /\ eq = [p \in Procs |-> NoEq]

\* No practice and no quiz attempt yet.
InitDb == InitWith(<<>>, NoAttempt)

Init ==
  /\ InitDb
  /\ sample = NoSample
  /\ out = NoOut
  /\ view = NoView

\* ------------------------------------------------------------ pure helpers
Max_First(a, b) == a

Max(a, b) == IF a >= b THEN a ELSE b

\* SQL integer division truncates toward zero.
SqlIntDiv(a, b) == IF a >= 0 THEN a \div b ELSE -((-a) \div b)

\* level = FLOOR((total_points + %s) / 100) + 1
LevelOf(tp) == SqlIntDiv(tp, 100) + 1

NewStreak_GapResetsToZero(last_date, current_streak, tdy) ==
  IF last_date # NoDate
  THEN IF tdy - last_date = 1 THEN current_streak + 1
       ELSE IF tdy - last_date > 1 THEN 0
       ELSE current_streak
  ELSE 1

NewStreak_GapCounts(last_date, current_streak, tdy) ==
  IF last_date # NoDate
  THEN IF tdy - last_date >= 1 THEN current_streak + 1
       ELSE current_streak
  ELSE 1

NewStreak_BackdatedResets(last_date, current_streak, tdy) ==
  IF last_date # NoDate
  THEN IF tdy - last_date = 1 THEN current_streak + 1
       ELSE IF tdy - last_date > 1 \/ tdy - last_date < 0 THEN 1
       ELSE current_streak
  ELSE 1

\* The streak branch of add_points.
NewStreak(last_date, current_streak, tdy) ==
  IF last_date # NoDate
  THEN IF tdy - last_date = 1 THEN current_streak + 1
       ELSE IF tdy - last_date > 1 THEN 1
       ELSE current_streak
  ELSE 1

UpdatedRow_KeepsDate(row, points, current_streak, longest_streak, tdy) ==
  Row(row.total_points + points, LevelOf(row.total_points + points),
      current_streak, longest_streak, row.last_activity_date)

UpdatedRow_StaleLevel(row, points, current_streak, longest_streak, tdy) ==
  Row(row.total_points + points, LevelOf(row.total_points),
      current_streak, longest_streak, tdy)

\* The UPDATE of add_points, applied to the latest committed row.
UpdatedRow(row, points, current_streak, longest_streak, tdy) ==
  Row(row.total_points + points, LevelOf(row.total_points + points),
      current_streak, longest_streak, tdy)

\* The columns the SELECT of add_points fetches.
Fetched(row) ==
  IF row.exists
  THEN [exists |-> TRUE, last_activity_date |-> row.last_activity_date,
        current_streak |-> row.current_streak,
        longest_streak |-> row.longest_streak]
  ELSE NoRow

RowLockFree_NoLock(p, s) == TRUE

\* A row lock is granted when no other transaction holds it.
RowLockFree(p, s) == lock[s] \in {0, p}

\* The worker has read the row and has not yet ended its transaction.
InFlight(q) == pc[q] \in {"ap_update", "ap_badges", "ap_award", "ap_commit"}

HasBadge_Never(p, s, b) == FALSE

\* _has_badge: the cursor sees committed rows and its own inserts.
HasBadge(p, s, b) == badges[s][b] + tx[p].badges[b] > 0

BadgeRule(b, total_points, level, current_streak) ==
  CASE b = "Century" -> total_points >= 100
    [] b = "Champion" -> total_points >= 500
    [] b = "Legend" -> total_points >= 1000
    [] b = "Week Warrior" -> current_streak >= 7
    [] b = "Month Master" -> current_streak >= 30
    [] b = "Rising Star" -> level >= 5
    [] b = "Superstar" -> level >= 10

BadgesToAward_FirstOnly(p, s, total_points, level, current_streak) ==
  LET Due(b) == BadgeRule(b, total_points, level, current_streak)
                  /\ ~HasBadge(p, s, b)
      due == SelectSeq(BadgeOrder, Due)
  IN IF due = <<>> THEN <<>> ELSE <<Head(due)>>

BadgesToAward(p, s, total_points, level, current_streak) ==
  LET Due(b) == BadgeRule(b, total_points, level, current_streak)
                  /\ ~HasBadge(p, s, b)
  IN SelectSeq(BadgeOrder, Due)

\* INSERT INTO badges (student_id, badge_name, ...) in the transaction t.
InsertBadge(t, b) == [t EXCEPT !.badges[b] = @ + 1]

InsertNotification_Dropped(t) == t

\* INSERT INTO notifications (user_id, title, message, notification_type).
InsertNotification(t) == [t EXCEPT !.notifications = @ + 1]

\* ------------------------------------------------------------------- text
\* A text is a sequence of characters.
UpperCase == <<"A", "B", "C", "D", "E", "F", "G", "H", "I", "J", "K", "L", "M", "N", "O", "P", "Q", "R", "S", "T", "U", "V", "W", "X", "Y", "Z">>
LowerCase == <<"a", "b", "c", "d", "e", "f", "g", "h", "i", "j", "k", "l", "m", "n", "o", "p", "q", "r", "s", "t", "u", "v", "w", "x", "y", "z">>
Digits == {"0", "1", "2", "3", "4", "5", "6", "7", "8", "9"}

IsUpper(c) == \E i \in 1..26 : UpperCase[i] = c
IsLower(c) == \E i \in 1..26 : LowerCase[i] = c
IsDigit(c) == c \in Digits
IsSpace(c) == c \in {" ", "\n", "\t", "\r"}

\* \w of the re module.
IsWordChar(c) == IsUpper(c) \/ IsLower(c) \/ IsDigit(c) \/ c = "_"

\* str.lower()
LowerChar(c) ==
  IF IsUpper(c) THEN LowerCase[CHOOSE i \in 1..26 : UpperCase[i] = c] ELSE c
Lower(t) == [i \in 1..Len(t) |-> LowerChar(t[i])]

\* str.strip()
Strip(t) ==
  LET keep == {i \in 1..Len(t) : ~IsSpace(t[i])}
  IN IF keep = {} THEN <<>>
     ELSE SubSeq(t, CHOOSE i \in keep : \A j \in keep : i <= j,
                    CHOOSE i \in keep : \A j \in keep : i >= j)

\* str.startswith()
StartsWith(t, prefix) ==
  Len(t) >= Len(prefix) /\ SubSeq(t, 1, Len(prefix)) = prefix

\* The literal w occurs in t from position i on.
MatchAt(t, i, w) ==
  i >= 1 /\ i + Len(w) - 1 <= Len(t) /\ SubSeq(t, i, i + Len(w) - 1) = w

WordBoundary_Always(t, k) == TRUE

\* \b between position k and position k + 1 of t (k = 0: before the text).
WordBoundary(t, k) ==
  LET before == k >= 1 /\ IsWordChar(t[k])
      after == k < Len(t) /\ IsWordChar(t[k + 1])
  IN before # after

\* re.search(r'\b(w1|w2|...)\b', t)
WordSearch(t, words) ==
  \E i \in 1..Len(t) : \E w \in words :
    MatchAt(t, i, w) /\ WordBoundary(t, i - 1) /\ WordBoundary(t, i + Len(w) - 1)

W_correct == <<"c", "o", "r", "r", "e", "c", "t">>
W_partially == <<"p", "a", "r", "t", "i", "a", "l", "l", "y">>
W_incorrect == <<"i", "n", "c", "o", "r", "r", "e", "c", "t">>
W_wrong == <<"w", "r", "o", "n", "g">>
NegativeWords ==
  { W_incorrect, W_wrong,
    <<"n", "o", "t", " ", "c", "o", "r", "r", "e", "c", "t">>,
    <<"n", "o", "t", " ", "r", "i", "g", "h", "t">> }
PositiveWords ==
  { <<"r", "i", "g", "h", "t">>,
    <<"w", "e", "l", "l", " ", "d", "o", "n", "e">>,
    <<"e", "x", "c", "e", "l", "l", "e", "n", "t">>,
    <<"p", "e", "r", "f", "e", "c", "t">>,
    <<"g", "r", "e", "a", "t", " ", "j", "o", "b">> }

IsCorrect_PositiveFirst(feedback) ==
  LET feedback_lower == Strip(Lower(feedback)) IN
  IF StartsWith(feedback_lower, W_correct) THEN TRUE
  ELSE IF StartsWith(feedback_lower, W_partially) THEN FALSE
  ELSE IF StartsWith(feedback_lower, W_incorrect)
            \/ StartsWith(feedback_lower, W_wrong) THEN FALSE
  ELSE IF WordSearch(feedback_lower, PositiveWords) THEN TRUE
  ELSE FALSE

\* The is_correct cascade of save_practice_result.  The alternative ^correct
\* of the positive pattern matches at the start of the text only.
IsCorrect(feedback) ==
  LET feedback_lower == Strip(Lower(feedback)) IN
  IF StartsWith(feedback_lower, W_correct) THEN TRUE
  ELSE IF StartsWith(feedback_lower, W_partially) THEN FALSE
  ELSE IF StartsWith(feedback_lower, W_incorrect)
            \/ StartsWith(feedback_lower, W_wrong) THEN FALSE
  ELSE IF WordSearch(feedback_lower, NegativeWords) THEN FALSE
  ELSE IF \/ WordSearch(feedback_lower, PositiveWords)
          \/ /\ MatchAt(feedback_lower, 1, W_correct)
             /\ WordBoundary(feedback_lower, 0)
             /\ WordBoundary(feedback_lower, Len(W_correct))
       THEN TRUE
  ELSE FALSE

\* The same cascade in TutorAgent.evaluate_answer.
EvaluateIsCorrect(feedback) ==
  LET feedback_lower == Strip(Lower(feedback)) IN
  IF StartsWith(feedback_lower, W_correct) THEN TRUE
  ELSE IF StartsWith(feedback_lower, W_partially) THEN FALSE
  ELSE IF StartsWith(feedback_lower, W_incorrect)
            \/ StartsWith(feedback_lower, W_wrong) THEN FALSE
  ELSE IF WordSearch(feedback_lower, NegativeWords) THEN FALSE
  ELSE IF \/ WordSearch(feedback_lower, PositiveWords)
          \/ /\ MatchAt(feedback_lower, 1, W_correct)
             /\ WordBoundary(feedback_lower, 0)
             /\ WordBoundary(feedback_lower, Len(W_correct))
       THEN TRUE
  ELSE FALSE

\* ------------------------------------------ _extract_weak_areas_from_analysis
\* A text is a sequence of one-character strings; "bullet" stands for the
\* bullet glyph U+2022 and "ndash" for the dash U+2013.
SpaceChars == {" ", "\n", "\t", "\r"}
BulletChars == {"*", "bullet", "-"}
HeaderPunct == {":", "-", "ndash"}
MaxTopicLen == 100

W_area == <<"a", "r", "e", "a">>
W_for == <<"f", "o", "r">>
W_improvement == <<"i", "m", "p", "r", "o", "v", "e", "m", "e", "n", "t">>
W_youre == <<"Y", "o", "u", "'", "r", "e">>

MinOf(S) == CHOOSE x \in S : \A y \in S : x <= y

\* The first position from i on whose character is outside S (a greedy
\* [..]* from i ends there).
SkipWhile(t, i, S) ==
  LET stop == {j \in i..Len(t) : t[j] \notin S}
  IN IF stop = {} THEN (IF i > Len(t) THEN i ELSE Len(t) + 1) ELSE MinOf(stop)

\* \s+FOR\s+IMPROVEMENT from position a of the lower-cased text: the position
\* after it, or 0.
AfterWords(lt, a) ==
  IF a > Len(lt) \/ lt[a] \notin SpaceChars THEN 0
  ELSE LET b == SkipWhile(lt, a, SpaceChars) IN
       IF ~MatchAt(lt, b, W_for) THEN 0
       ELSE LET c == b + Len(W_for) IN
            IF c > Len(lt) \/ lt[c] \notin SpaceChars THEN 0
            ELSE LET d == SkipWhile(lt, c, SpaceChars) IN
                 IF MatchAt(lt, d, W_improvement)
                 THEN d + Len(W_improvement) ELSE 0

\* AREAS?\s+FOR\s+IMPROVEMENT (IGNORECASE) at position i: the position after
\* it, or 0.
HeaderEnd(lt, i) ==
  IF ~MatchAt(lt, i, W_area) THEN 0
  ELSE LET a == i + Len(W_area) IN
       IF a <= Len(lt) /\ lt[a] = "s" THEN AfterWords(lt, a + 1)
       ELSE AfterWords(lt, a)

\* The lookahead \d+\.\s+[A-Z] at position r; under IGNORECASE [A-Z] takes a
\* letter of either case.
NumberedAt(t, r) ==
  /\ r <= Len(t)
  /\ IsDigit(t[r])
  /\ LET e == SkipWhile(t, r, Digits) IN
     /\ e + 1 <= Len(t)
     /\ t[e] = "."
     /\ t[e + 1] \in SpaceChars
     /\ LET g == SkipWhile(t, e + 1, SpaceChars) IN
        g <= Len(t) /\ (IsUpper(t[g]) \/ IsLower(t[g]))

WeakSection_WholeText(t) == [found |-> TRUE, group |-> t]

\* re.search of the section pattern: the leftmost header, [:\-ndash]*, \s*,
\* then group(1) up to the first numbered header or the end of the text.
WeakSection(t) ==
  LET lt == Lower(t)
      starts == {i \in 1..Len(t) : HeaderEnd(lt, i) # 0}
  IN IF starts = {} THEN [found |-> FALSE, group |-> <<>>]
     ELSE LET h == HeaderEnd(lt, MinOf(starts))
              q == SkipWhile(t, SkipWhile(t, h, HeaderPunct), SpaceChars)
              ends == {r \in q..Len(t) : NumberedAt(t, r)}
              r == IF ends = {} THEN Len(t) + 1 ELSE MinOf(ends)
          IN [found |-> TRUE, group |-> SubSeq(t, q, r - 1)]

\* str.split(sep)
RECURSIVE Split(_, _)
Split(t, sep) ==
  LET at == {i \in 1..Len(t) : t[i] = sep}
  IN IF at = {} THEN <<t>>
     ELSE <<SubSeq(t, 1, MinOf(at) - 1)>>
            \o Split(SubSeq(t, MinOf(at) + 1, Len(t)), sep)

\* re.match(r'^[\*bullet\-]+$', line)
OnlyBullets(line) ==
  line # <<>> /\ \A i \in 1..Len(line) : line[i] \in BulletChars

EndsExclaimed_Never(line) == FALSE

\* re.search(r'[A-Z][a-z]+.*!$', line)
EndsExclaimed(line) ==
  /\ Len(line) >= 3
  /\ line[Len(line)] = "!"
  /\ \E i \in 1..(Len(line) - 2) : IsUpper(line[i]) /\ IsLower(line[i + 1])

\* re.match(r'^\d+[\.)]\s+[A-Z]', line)
NumberedLine(line) ==
  /\ line # <<>>
  /\ IsDigit(line[1])
  /\ LET e == SkipWhile(line, 1, Digits) IN
     /\ e + 1 <= Len(line)
     /\ line[e] \in {".", ")"}
     /\ line[e + 1] \in SpaceChars
     /\ LET g == SkipWhile(line, e + 1, SpaceChars) IN
        g <= Len(line) /\ IsUpper(line[g])

RemoveBullet_Kept(line) == line

\* re.sub(r'^[bullet\-*]\s*', '', line)
RemoveBullet(line) ==
  IF line # <<>> /\ line[1] \in BulletChars
  THEN SubSeq(line, SkipWhile(line, 2, SpaceChars), Len(line))
  ELSE line

\* The loop over the lines of the section, from line k on.
RECURSIVE ScanLines(_, _, _)
ScanLines(lines, k, weak_areas) ==
  IF k > Len(lines) THEN weak_areas
  ELSE LET line == Strip(lines[k]) IN
       IF line = <<>> \/ OnlyBullets(line)
       THEN ScanLines(lines, k + 1, weak_areas)
       ELSE IF StartsWith(line, W_youre) \/ EndsExclaimed(line)
       THEN weak_areas
       ELSE IF StartsWith(line, <<"|">>) THEN weak_areas
       ELSE IF NumberedLine(line) THEN weak_areas
       ELSE LET cleaned_line == Strip(RemoveBullet(line)) IN
            IF cleaned_line # <<>> /\ Len(cleaned_line) < MaxTopicLen
            THEN ScanLines(lines, k + 1, Append(weak_areas, cleaned_line))
            ELSE ScanLines(lines, k + 1, weak_areas)

\* _extract_weak_areas_from_analysis(analysis_text)
ExtractWeakAreas(analysis_text) ==
  LET match == WeakSection(analysis_text) IN
  IF ~match.found THEN <<>>
  ELSE LET weak_section == Strip(match.group) IN
       IF weak_section = <<>> THEN <<>>
       ELSE ScanLines(Split(weak_section, "\n"), 1, <<>>)

\* --------------------------------------------------------- failure helpers
CanFault(f) == f = "none" \/ faults < MaxFaults

NoteFault(p, f) ==
  /\ faults' = IF f = "none" THEN faults ELSE faults + 1
  /\ faulted' = [faulted EXCEPT ![p] = @ \/ f # "none"]

\* The add_points transaction ends: its writes are dropped (or were applied
\* by the caller) and its row lock is released.
EndTx(p) ==
  /\ tx' = [tx EXCEPT ![p] = NoTx]
  /\ lock' = [s \in Students |-> IF lock[s] = p THEN 0 ELSE lock[s]]

\* add_points returns v; its locals are gone.  save_practice_result and
\* evaluate_quiz_attempt ignore the value and go on to their own commit.
Return(p, v) ==
  /\ IF kind[p] = "add_points"
     THEN /\ pc' = [pc EXCEPT ![p] = "done"]
          /\ ret' = [ret EXCEPT ![p] = v]
     ELSE /\ pc' = [pc EXCEPT ![p] = IF kind[p] = "save_practice_result"
                                      THEN "sp_commit" ELSE "eq_commit"]
          /\ UNCHANGED ret
  /\ op' = [op EXCEPT ![p] = NoOp]
  /\ rd' = [rd EXCEPT ![p] = NoRow]
  /\ td' = [td EXCEPT ![p] = 0]
  /\ cs' = [cs EXCEPT ![p] = 0]
  /\ ls' = [ls EXCEPT ![p] = 0]
  /\ award' = [award EXCEPT ![p] = <<>>]
  /\ conn' = [conn EXCEPT ![p] = "ok"]

\* except Exception in add_points: print, return False.  The connection is
\* dropped without commit, so the server rolls the transaction back.
Raise(p) ==
  /\ EndTx(p)
  /\ Return(p, "False")

\* ------------------------------------------------- _initialize_gamification
\* student_dashboard: if the student has no row, _initialize_gamification
\* inserts one (ON CONFLICT DO NOTHING) and commits.
InitializeGamification(s) ==
  /\ UNCHANGED <<textVars, quizVars, credited>>
  /\ ~gam[s].exists
  /\ gam' = [gam EXCEPT ![s] = NewProfile]
  /\ UNCHANGED <<badges, notifications, lock, pc, op, apLocals, tx, ret,
                 kind, progress, spVars, hist>>

\* A request is served by the first worker that is not busy.
Free(p) ==
  /\ pc[p] \in {"idle", "done"}
  /\ \A q \in Procs : q < p => pc[q] \notin {"idle", "done"}

\* --------------------------------------------------------------- add_points
\* The SELECT of add_points on the row of op.student, and the streak
\* arithmetic on the fetched values.
SelectStreak(p, o, today, f) ==
  IF f # "none"
  THEN Raise(p)
  ELSE LET row == Fetched(gam[o.student]) IN
       /\ rd' = [rd EXCEPT ![p] = row]
       /\ op' = [op EXCEPT ![p] = o]
       /\ IF row.exists
          THEN LET streak == NewStreak(row.last_activity_date,
                                       row.current_streak, today)
               IN /\ td' = [td EXCEPT ![p] = today]
                  /\ cs' = [cs EXCEPT ![p] = streak]
                  /\ ls' = [ls EXCEPT ![p] = Max(row.longest_streak, streak)]
                  /\ pc' = [pc EXCEPT ![p] = "ap_update"]
          ELSE /\ pc' = [pc EXCEPT ![p] = "ap_commit"]
               /\ UNCHANGED <<td, cs, ls>>
       /\ UNCHANGED <<tx, lock, ret, award, conn>>

\* A worker calls add_points(s, points, reason): connect, SELECT
\* last_activity_date, current_streak, longest_streak, streak arithmetic.
CallAddPoints(p, s, points, today, f) ==
  /\ UNCHANGED <<textVars, quizVars>>
  /\ credited' = [credited EXCEPT ![p] = FALSE]
  /\ Free(p)
  /\ calls < MaxCalls
  /\ calls' = calls + 1
  /\ CanFault(f)
  /\ faults' = IF f = "none" THEN faults ELSE faults + 1
  /\ faulted' = [faulted EXCEPT ![p] = f # "none"]
  /\ requested' = [requested EXCEPT ![s] = @ + points]
  /\ raced' = (raced \/ (f = "none" /\ \E q \in Procs \ {p} : InFlight(q)))
  /\ IF f # "none"
     THEN /\ pc' = [pc EXCEPT ![p] = "done"]
          /\ ret' = [ret EXCEPT ![p] = "False"]
          /\ UNCHANGED <<op, apLocals, tx, lock>>
     ELSE SelectStreak(p, [student |-> s, points |-> points], today, f)
  /\ UNCHANGED <<gam, badges, notifications, kind, progress, spVars,
                 init0>>

\* The same SELECT when save_practice_result has called add_points.
AddPointsSelect(p, today, f) ==
  /\ UNCHANGED <<textVars, quizVars, credited>>
  /\ pc[p] = "ap_select"
  /\ CanFault(f)
  /\ NoteFault(p, f)
  /\ SelectStreak(p, op[p], today, f)
  /\ raced' = (raced \/ (f = "none" /\ \E q \in Procs \ {p} : InFlight(q)))
  /\ UNCHANGED <<gam, badges, notifications, kind, progress, spVars,
                 init0, requested, calls>>

\* UPDATE student_gamification SET total_points = total_points + %s, ...
\* It waits for the row lock and then works on the latest committed row.
AddPointsUpdate(p, f) ==
  /\ UNCHANGED <<textVars, quizVars, credited>>
  /\ pc[p] = "ap_update"
  /\ RowLockFree(p, op[p].student)
  /\ CanFault(f)
  /\ NoteFault(p, f)
  /\ IF f # "none"
     THEN Raise(p)
     ELSE /\ lock' = [lock EXCEPT ![op[p].student] = p]
          /\ tx' = [tx EXCEPT ![p].row =
                      UpdatedRow(gam[op[p].student], op[p].points, cs[p],
                                 ls[p], td[p])]
          /\ pc' = [pc EXCEPT ![p] = "ap_badges"]
          /\ UNCHANGED <<ret, apLocals, op>>
  /\ UNCHANGED <<gam, badges, notifications, kind, progress, spVars,
                 init0, requested, raced, calls>>

\* _check_and_award_badges up to the list badges_to_award: the SELECT of
\* total_points and level, and the _has_badge queries.  An exception is
\* printed and swallowed.
CheckBadges(p, f) ==
  /\ UNCHANGED <<textVars, quizVars, credited>>
  /\ pc[p] = "ap_badges"
  /\ CanFault(f)
  /\ NoteFault(p, f)
  /\ IF f # "none"
     THEN /\ conn' = [conn EXCEPT ![p] = IF f = "stmt" THEN "aborted" ELSE "lost"]
          /\ UNCHANGED award
     ELSE /\ award' = [award EXCEPT ![p] =
                         BadgesToAward(p, op[p].student, tx[p].row.total_points,
                                       tx[p].row.level, cs[p])]
          /\ UNCHANGED conn
  /\ pc' = [pc EXCEPT ![p] = IF f = "none" /\ award'[p] # <<>>
                               THEN "ap_award" ELSE "ap_commit"]
  /\ UNCHANGED <<gam, badges, notifications, lock, op, rd, td, cs, ls,
                 tx, ret, kind, progress, spVars, init0, requested, raced,
                 calls>>

\* One round of the award loop: INSERT INTO badges, INSERT INTO
\* notifications.  at = 1: the first INSERT fails; at = 2: the second.
AwardBadge(p, f, at) ==
  /\ UNCHANGED <<textVars, quizVars, credited>>
  /\ pc[p] = "ap_award"
  /\ award[p] # <<>>
  /\ CanFault(f)
  /\ NoteFault(p, f)
  /\ f = "none" => at = 1
  /\ LET b == Head(award[p]) IN
     IF f # "none"
     THEN /\ conn' = [conn EXCEPT ![p] = IF f = "stmt" THEN "aborted" ELSE "lost"]
          /\ tx' = [tx EXCEPT ![p] = IF at = 2 THEN InsertBadge(@, b) ELSE @]
          /\ pc' = [pc EXCEPT ![p] = "ap_commit"]
          /\ UNCHANGED award
     ELSE /\ tx' = [tx EXCEPT ![p] = InsertNotification(InsertBadge(@, b))]
          /\ award' = [award EXCEPT ![p] = Tail(@)]
          /\ pc' = [pc EXCEPT ![p] = IF Tail(award[p]) = <<>>
                                      THEN "ap_commit" ELSE "ap_award"]
          /\ UNCHANGED conn
  /\ UNCHANGED <<gam, badges, notifications, lock, op, rd, td, cs, ls,
                 ret, kind, progress, spVars, init0, requested, raced, calls>>

\* conn.commit(); return True.  COMMIT of an aborted transaction is a
\* rollback and does not raise; on a lost connection commit() raises.
AddPointsCommit(p, f) ==
  /\ UNCHANGED <<textVars, quizVars>>
  /\ pc[p] = "ap_commit"
  /\ f # "stmt"
  /\ CanFault(f)
  /\ NoteFault(p, f)
  /\ LET s == op[p].student IN
     IF f = "conn" \/ conn[p] = "lost"
     THEN /\ Raise(p)
          /\ UNCHANGED <<gam, badges, notifications, credited>>
     ELSE /\ IF conn[p] = "aborted"
             THEN UNCHANGED <<gam, badges, notifications, credited>>
             ELSE /\ gam' = [gam EXCEPT ![s] = IF tx[p].row.exists
                                               THEN tx[p].row ELSE @]
                  /\ credited' = [credited EXCEPT ![p] = tx[p].row.exists]
                  /\ badges' = [badges EXCEPT ![s] =
                                  [b \in BadgeNames |-> @[b] + tx[p].badges[b]]]
                  /\ notifications' = [notifications EXCEPT ![s] =
                                         @ + tx[p].notifications]
          /\ EndTx(p)
          /\ Return(p, "True")
  /\ UNCHANGED <<kind, progress, spVars, init0, requested, raced,
                 calls>>

\* ----------------------------------------------------- save_practice_result
ProgressRow(s, topic, attempts, correct_attempts, feedback) ==
  [student_id |-> s, subject |-> Subject, topic |-> topic,
   attempts |-> attempts, correct_attempts |-> correct_attempts,
   last_feedback |-> feedback]

NewAttempts_NotCounted(attempts) == attempts

\* new_attempts = attempts + 1
NewAttempts(attempts) == attempts + 1

NewCorrect_Always(correct_attempts, is_correct) == correct_attempts + 1

\* new_correct = correct_attempts + (1 if is_correct else 0)
NewCorrect(correct_attempts, is_correct) ==
  correct_attempts + (IF is_correct THEN 1 ELSE 0)

PracticePoints_Flat(is_correct) == 5

\* points = 5 if is_correct else 2
PracticePoints(is_correct) == IF is_correct THEN 5 ELSE 2

\* The ids of the committed rows of a (student, subject, topic).
ProgressIds(s, subject, topic) ==
  {i \in 1..Len(progress) :
     /\ progress[i].student_id = s
     /\ progress[i].subject = subject
     /\ progress[i].topic = topic}

\* Topics are interchangeable: they are named in the order of first use, so
\* a call names "t2" only when "t1" is on record or being recorded.
TopicInUse(topic) ==
  \/ \E i \in 1..Len(progress) : progress[i].topic = topic
  \/ \E q \in Procs : kind[q] = "save_practice_result" /\ sp[q].topic = topic

\* save_practice_result returns v; its locals are gone and its transaction
\* has ended.
ReturnSp(p, v) ==
  /\ ptx' = [ptx EXCEPT ![p] = NoWrite]
  /\ plk' = [plk EXCEPT ![p] = 0]
  /\ spres' = [spres EXCEPT ![p] = NoRes]
  /\ sp' = [sp EXCEPT ![p] = NoSp]
  /\ kind' = [kind EXCEPT ![p] = "add_points"]
  /\ pc' = [pc EXCEPT ![p] = "done"]
  /\ ret' = [ret EXCEPT ![p] = v]

\* except Exception in save_practice_result: print, return False; the
\* transaction is never committed.
RaiseSp(p) == ReturnSp(p, "False")

\* A worker calls save_practice_result: connect, the is_correct cascade,
\* SELECT id, attempts, correct_attempts ...; fetchone().  No ORDER BY: with
\* several rows for the triple any of them can come first.
CallSavePractice(p, s, topic, feedback, f) ==
  /\ UNCHANGED <<textVars, quizVars>>
  /\ credited' = [credited EXCEPT ![p] = FALSE]
  /\ Free(p)
  /\ topic = "t2" => TopicInUse("t1")
  /\ calls < MaxCalls
  /\ calls' = calls + 1
  /\ CanFault(f)
  /\ faults' = IF f = "none" THEN faults ELSE faults + 1
  /\ faulted' = [faulted EXCEPT ![p] = f # "none"]
  /\ IF f # "none"
     THEN RaiseSp(p)
     ELSE LET ids == ProgressIds(s, Subject, topic) IN
          /\ kind' = [kind EXCEPT ![p] = "save_practice_result"]
          /\ sp' = [sp EXCEPT ![p] =
                      [student |-> s, subject |-> Subject, topic |-> topic,
                       feedback |-> feedback,
                       is_correct |-> IsCorrect(feedback)]]
          /\ IF ids = {}
             THEN spres' = [spres EXCEPT ![p] = NoRes]
             ELSE \E i \in ids :
                    spres' = [spres EXCEPT ![p] =
                                [id |-> i, attempts |-> progress[i].attempts,
                                 correct_attempts |->
                                   progress[i].correct_attempts]]
          /\ pc' = [pc EXCEPT ![p] = "sp_write"]
          /\ ret' = [ret EXCEPT ![p] = "none"]
          /\ UNCHANGED <<ptx, plk>>
  /\ UNCHANGED <<gam, badges, notifications, lock, op, apLocals, tx,
                 progress, init0, requested, raced>>

\* The UPDATE (row found) or the INSERT (no row) of student_progress, then
\* the call self.add_points(student_id, 5 if is_correct else 2, ...).
SavePracticeWrite(p, f) ==
  /\ UNCHANGED <<textVars, quizVars, credited>>
  /\ pc[p] = "sp_write"
  /\ spres[p].id # 0 => \A q \in Procs \ {p} : plk[q] # spres[p].id
  /\ CanFault(f)
  /\ NoteFault(p, f)
  /\ IF f # "none"
     THEN /\ RaiseSp(p)
          /\ UNCHANGED <<op, requested>>
     ELSE LET inc == IF sp[p].is_correct THEN 1 ELSE 0
              points == PracticePoints(sp[p].is_correct)
          IN /\ IF spres[p].id # 0
                THEN /\ ptx' = [ptx EXCEPT ![p] =
                                  [kind |-> "update", id |-> spres[p].id,
                                   attempts |-> NewAttempts(spres[p].attempts),
                                   correct_attempts |->
                                     NewCorrect(spres[p].correct_attempts,
                                                sp[p].is_correct),
                                   last_feedback |-> sp[p].feedback]]
                     /\ plk' = [plk EXCEPT ![p] = spres[p].id]
                ELSE /\ ptx' = [ptx EXCEPT ![p] =
                                  [kind |-> "insert",
                                   row |-> ProgressRow(sp[p].student,
                                                       sp[p].topic, 1, inc,
                                                       sp[p].feedback)]]
                     /\ UNCHANGED plk
             /\ op' = [op EXCEPT ![p] =
                         [student |-> sp[p].student, points |-> points]]
             /\ requested' = [requested EXCEPT ![sp[p].student] = @ + points]
             /\ pc' = [pc EXCEPT ![p] = "ap_select"]
             /\ UNCHANGED <<spres, sp, kind, ret>>
  /\ UNCHANGED <<gam, badges, notifications, lock, apLocals, tx,
                 progress, init0, raced, calls>>

\* conn.commit(); return True.
SavePracticeCommit(p, f) ==
  /\ UNCHANGED <<textVars, quizVars, credited>>
  /\ pc[p] = "sp_commit"
  /\ f # "stmt"
  /\ CanFault(f)
  /\ NoteFault(p, f)
  /\ IF f = "conn"
     THEN /\ RaiseSp(p)
          /\ UNCHANGED progress
     ELSE /\ progress' =
               IF ptx[p].kind = "update"
               THEN [progress EXCEPT
                       ![ptx[p].id].attempts = ptx[p].attempts,
                       ![ptx[p].id].correct_attempts = ptx[p].correct_attempts,
                       ![ptx[p].id].last_feedback = ptx[p].last_feedback]
               ELSE Append(progress, ptx[p].row)
          /\ ReturnSp(p, "True")
  /\ UNCHANGED <<gam, badges, notifications, lock, op, apLocals, tx,
                 init0, requested, raced, calls>>

Next ==
  \/ \E s \in Students : InitializeGamification(s)
  \/ \E p \in Procs, s \in Students, points \in Points, today \in Days,
        f \in FaultKinds : CallAddPoints(p, s, points, today, f)
  \/ \E p \in Procs, today \in Days, f \in FaultKinds :
       AddPointsSelect(p, today, f)
  \/ \E p \in Procs, f \in FaultKinds : AddPointsUpdate(p, f)
  \/ \E p \in Procs, f \in FaultKinds : CheckBadges(p, f)
  \/ \E p \in Procs, f \in FaultKinds, at \in {1, 2} : AwardBadge(p, f, at)
  \/ \E p \in Procs, f \in FaultKinds : AddPointsCommit(p, f)
  \/ \E p \in Procs, s \in Students, topic \in Topics, feedback \in Feedbacks,
        f \in FaultKinds : CallSavePractice(p, s, topic, feedback, f)
  \/ \E p \in Procs, f \in FaultKinds : SavePracticeWrite(p, f)
  \/ \E p \in Procs, f \in FaultKinds : SavePracticeCommit(p, f)

Spec == Init /\ [][Next]_vars

\* The same workers on a student who has practised the first topic before.
SpecPractice ==
  /\ InitWith(<<ProgressRow("s1", "t1", 1, 1,
                            <<"C", "o", "r", "r", "e", "c", "t", "!">>)>>,
              NoAttempt)
  /\ sample = NoSample
  /\ out = NoOut
  /\ view = NoView
  /\ [][Next]_vars

\* ---------------------------------------------------- evaluate_quiz_attempt
\* Scores a teacher can enter for an attempt of 20 marks: 45, 50, 75 and 90
\* per cent.
Scores == {9, 10, 15, 18}

\* percentage = (score / total_marks) * 100 if total_marks > 0 else 0, and
\* the cascade >= 90, >= 75, >= 50 on it.
QuizBonus(score, total_marks) ==
  IF total_marks <= 0 THEN 0
  ELSE IF 100 * score >= 90 * total_marks THEN 30
  ELSE IF 100 * score >= 75 * total_marks THEN 20
  ELSE IF 100 * score >= 50 * total_marks THEN 10
  ELSE 0

\* evaluate_quiz_attempt returns v (True after its commit, False from its
\* except branch); its transaction has ended and the lock of the attempt row
\* is released.
ReturnEq(p, v) ==
  /\ eq' = [eq EXCEPT ![p] = NoEq]
  /\ kind' = [kind EXCEPT ![p] = "add_points"]
  /\ pc' = [pc EXCEPT ![p] = "done"]
  /\ ret' = [ret EXCEPT ![p] = v]

\* A worker calls evaluate_quiz_attempt(attempt_id, score, feedback):
\* connect, UPDATE quiz_attempts SET score ... (waits for the lock of the
\* row, whatever the row holds), SELECT student_id, total_marks, and the
\* call of add_points that the percentage selects.
CallEvaluateQuiz(p, score, f) ==
  /\ UNCHANGED <<textVars, credited, quiz>>
  /\ Free(p)
  /\ quiz.exists
  /\ \A q \in Procs \ {p} : ~eq[q].locked
  /\ calls < MaxCalls
  /\ calls' = calls + 1
  /\ CanFault(f)
  /\ faults' = IF f = "none" THEN faults ELSE faults + 1
  /\ faulted' = [faulted EXCEPT ![p] = f # "none"]
  /\ IF f # "none"
     THEN /\ ReturnEq(p, "False")
          /\ UNCHANGED <<op, requested>>
     ELSE LET bonus == QuizBonus(score, quiz.total_marks) IN
          /\ eq' = [eq EXCEPT ![p] =
                      [score |-> score, bonus |-> bonus, locked |-> TRUE]]
          /\ kind' = [kind EXCEPT ![p] = "evaluate_quiz_attempt"]
          /\ ret' = [ret EXCEPT ![p] = "none"]
          /\ IF bonus > 0
             THEN /\ op' = [op EXCEPT ![p] =
                              [student |-> quiz.student_id, points |-> bonus]]
                  /\ requested' =
                       [requested EXCEPT ![quiz.student_id] = @ + bonus]
                  /\ pc' = [pc EXCEPT ![p] = "ap_select"]
             ELSE /\ pc' = [pc EXCEPT ![p] = "eq_commit"]
                  /\ UNCHANGED <<op, requested>>
  /\ UNCHANGED <<gam, badges, notifications, lock, apLocals, tx, progress,
                 spVars, init0, raced>>

\* conn.commit(); return True.
EvaluateQuizCommit(p, f) ==
  /\ UNCHANGED <<textVars, credited>>
  /\ pc[p] = "eq_commit"
  /\ f # "stmt"
  /\ CanFault(f)
  /\ NoteFault(p, f)
  /\ IF f = "conn"
     THEN /\ ReturnEq(p, "False")
          /\ UNCHANGED quiz
     ELSE /\ quiz' = [quiz EXCEPT !.score = eq[p].score]
          /\ ReturnEq(p, "True")
  /\ UNCHANGED <<gam, badges, notifications, lock, op, apLocals, tx,
                 progress, spVars, init0, requested, raced, calls>>

NextQuiz ==
  \/ \E p \in Procs, score \in Scores, f \in FaultKinds :
       CallEvaluateQuiz(p, score, f)
  \/ \E p \in Procs, today \in Days, f \in FaultKinds :
       AddPointsSelect(p, today, f)
  \/ \E p \in Procs, f \in FaultKinds : AddPointsUpdate(p, f)
  \/ \E p \in Procs, f \in FaultKinds : CheckBadges(p, f)
  \/ \E p \in Procs, f \in FaultKinds, at \in {1, 2} : AwardBadge(p, f, at)
  \/ \E p \in Procs, f \in FaultKinds : AddPointsCommit(p, f)
  \/ \E p \in Procs, f \in FaultKinds : EvaluateQuizCommit(p, f)

\* The workers on a submitted attempt of 20 marks that has not been graded.
SpecQuiz ==
  /\ InitWith(<<>>, [exists |-> TRUE, student_id |-> "s1",
                     total_marks |-> 20, score |-> -1])
  /\ sample = NoSample
  /\ out = NoOut
  /\ view = NoView
  /\ [][NextQuiz]_vars

\* ------------------------------------------------- the two parsers on texts
\* A feedback text is a lead, which decides how the text starts, and two
\* bodies, each with or without one of the negative and positive phrases.
Lead(text, start) == [text |-> text, start |-> start]
Body(text, neg, pos) == [text |-> text, neg |-> neg, pos |-> pos]

Leads ==
  { Lead(<<>>, "other"),
    Lead(<<"S", "a", "d", "l", "y", " ">>, "other"),
    Lead(<<"C", "o", "r", "r", "e", "c", "t", "!", " ">>, "correct"),
    Lead(<<"C", "O", "R", "R", "E", "C", "T", "!", " ">>, "correct"),
    Lead(<<" ", " ", "c", "o", "r", "r", "e", "c", "t", "l", "y", " ", "p",
           "u", "t", ".", " ">>, "correct"),
    Lead(<<"P", "a", "r", "t", "i", "a", "l", "l", "y", " ">>, "partially"),
    Lead(<<"I", "n", "c", "o", "r", "r", "e", "c", "t", ",", " ">>,
           "incorrect"),
    Lead(<<"\n", " ", "W", "r", "o", "n", "g", ".", " ">>, "wrong") }

Bodies ==
  { Body(<<>>, FALSE, FALSE),
    Body(<<"t", "h", "e", " ", "a", "n", "s", "w", "e", "r", " ", "i", "s",
           " ", "5", ".">>, FALSE, FALSE),
    Body(<<"m", "i", "s", "s", "i", "n", "g", " ", "a", " ", "s", "t", "e",
           "p", ".">>, FALSE, FALSE),
    Body(<<"n", "o", "t", " ", "e", "n", "t", "i", "r", "e", "l", "y", " ",
           "c", "o", "r", "r", "e", "c", "t">>, FALSE, FALSE),
    Body(<<"i", "t", " ", "i", "s", " ", "c", "o", "r", "r", "e", "c", "t">>,
           FALSE, FALSE),
    Body(<<"r", "i", "g", "h", "t", "e", "o", "u", "s">>, FALSE, FALSE),
    Body(<<"p", "u", "t", " ", "w", "r", "o", "n", "g", "l", "y">>, FALSE,
           FALSE),
    Body(<<"t", "h", "a", "t", " ", "i", "s", " ", "w", "r", "o", "n", "g",
           ".">>, TRUE, FALSE),
    Body(<<"t", "h", "i", "s", " ", "i", "s", " ", "I", "n", "c", "o", "r",
           "r", "e", "c", "t">>, TRUE, FALSE),
    Body(<<"N", "o", "t", " ", "C", "o", "r", "r", "e", "c", "t", ".">>,
           TRUE, FALSE),
    Body(<<"n", "o", "t", " ", "r", "i", "g", "h", "t", " ", "y", "e", "t">>,
           TRUE, FALSE),
    Body(<<"y", "o", "u", " ", "a", "r", "e", " ", "r", "i", "g", "h", "t">>,
           FALSE, TRUE),
    Body(<<"W", "e", "l", "l", " ", "d", "o", "n", "e">>, FALSE, TRUE),
    Body(<<"e", "x", "c", "e", "l", "l", "e", "n", "t">>, FALSE, TRUE),
    Body(<<"P", "e", "r", "f", "e", "c", "t", "!">>, FALSE, TRUE),
    Body(<<"G", "r", "e", "a", "t", " ", "j", "o", "b", ".">>, FALSE, TRUE) }

SecondBodies ==
  { b \in Bodies :
      b.text \in { <<>>, <<"t", "h", "a", "t", " ", "i", "s", " ", "w", "r",
                     "o", "n", "g", ".">>, <<"W", "e", "l", "l", " ", "d",
                     "o", "n", "e">>,
                   <<"n", "o", "t", " ", "e", "n", "t", "i", "r", "e", "l",
                     "y", " ", "c", "o", "r", "r", "e", "c", "t">>, <<"i",
                     "t", " ", "i", "s", " ", "c", "o", "r", "r", "e", "c",
                     "t">> } }

FeedbackSample(lead, b1, b2) ==
  [kind |-> "feedback",
   text |-> lead.text \o b1.text \o <<" ">> \o b2.text,
   start |-> lead.start, neg |-> b1.neg \/ b2.neg, pos |-> b1.pos \/ b2.pos,
   found |-> FALSE, pieces |-> <<>>, expect |-> <<>>]

Text_CorrectGreatJob == <<"C", "O", "R", "R", "E", "C", "T", "!", " ", "G",
                          "r", "e", "a", "t", " ", "j", "o", "b", ".">>
Text_IncorrectAnswer == <<"I", "n", "c", "o", "r", "r", "e", "c", "t", ",",
                          " ", "t", "h", "e", " ", "a", "n", "s", "w", "e",
                          "r", " ", "i", "s", " ", "5", ".">>
Text_PartiallyRight == <<"P", "a", "r", "t", "i", "a", "l", "l", "y", " ",
                         "r", "i", "g", "h", "t", ",", " ", "m", "i", "s",
                         "s", "i", "n", "g", " ", "a", " ", "s", "t", "e",
                         "p", ".">>
Text_NotEntirely == <<"n", "o", "t", " ", "e", "n", "t", "i", "r", "e", "l",
                      "y", " ", "c", "o", "r", "r", "e", "c", "t", " ", "b",
                      "u", "t", " ", "w", "e", "l", "l", " ", "d", "o", "n",
                      "e">>
Text_NotCorrect == <<"n", "o", "t", " ", "c", "o", "r", "r", "e", "c", "t",
                     " ", "b", "u", "t", " ", "w", "e", "l", "l", " ", "d",
                     "o", "n", "e">>

\* A feedback text given whole, with how it starts and what it holds.
Feedback(text, start, neg, pos) ==
  [kind |-> "feedback", text |-> text, start |-> start, neg |-> neg,
   pos |-> pos, found |-> FALSE, pieces |-> <<>>, expect |-> <<>>]

NamedFeedback ==
  { Feedback(Text_CorrectGreatJob, "correct", FALSE, TRUE),
    Feedback(Text_IncorrectAnswer, "incorrect", TRUE, FALSE),
    Feedback(Text_PartiallyRight, "partially", FALSE, TRUE),
    Feedback(Text_NotEntirely, "other", FALSE, TRUE),
    Feedback(Text_NotCorrect, "other", TRUE, TRUE),
    Feedback(<<>>, "other", FALSE, FALSE) }

FeedbackSamples ==
  NamedFeedback
    \cup { FeedbackSample(lead, b1, b2) :
             lead \in Leads, b1 \in Bodies, b2 \in SecondBodies }

\* An analysis text is a preamble, a header and lines.  A line is a topic
\* line (with the topic it names), a line to skip, a line that is dropped for
\* its length, or a stop line.
Piece(text, role, topic) == [text |-> text, role |-> role, topic |-> topic]
Xs(n) == [i \in 1..n |-> "x"]

Preambles ==
  { <<>>,
    <<"S", "u", "m", "m", "a", "r", "y", ":", " ", "g", "o", "o", "d", " ",
      "e", "f", "f", "o", "r", "t", ".", "\n", "\n">>,
    <<"1", ".", " ", "S", "T", "R", "E", "N", "G", "T", "H", "S", "\n", "-",
      " ", "C", "o", "u", "n", "t", "i", "n", "g", "\n", "\n", "2", ".",
      " ">> }

Header(text, found) == [text |-> text, found |-> found]

Headers ==
  { Header(<<"A", "R", "E", "A", "S", " ", "F", "O", "R", " ", "I", "M", "P",
             "R", "O", "V", "E", "M", "E", "N", "T", ":", "\n">>, TRUE),
    Header(<<"A", "R", "E", "A", "S", " ", "F", "O", "R", " ", "I", "M", "P",
             "R", "O", "V", "E", "M", "E", "N", "T", "\n">>, TRUE),
    Header(<<"A", "r", "e", "a", " ", "f", "o", "r", " ", "i", "m", "p", "r",
             "o", "v", "e", "m", "e", "n", "t", " ", "-", "\n">>, TRUE),
    Header(<<"a", "r", "e", "a", "s", " ", " ", "f", "o", "r", "\n", "I",
             "m", "p", "r", "o", "v", "e", "m", "e", "n", "t", "ndash", "\n",
             "\n">>, TRUE),
    Header(<<"A", "R", "E", "A", "S", " ", "O", "F", " ", "I", "M", "P", "R",
             "O", "V", "E", "M", "E", "N", "T", ":", "\n">>, FALSE),
    Header(<<"I", "M", "P", "R", "O", "V", "E", "M", "E", "N", "T", "S", ":",
             "\n">>, FALSE),
    Header(<<>>, FALSE) }

Pieces ==
  { Piece(<<"-", " ", "A", "d", "d", "i", "n", "g", " ", "f", "r", "a", "c",
            "t", "i", "o", "n", "s">>, "topic", <<"A", "d", "d", "i", "n",
            "g", " ", "f", "r", "a", "c", "t", "i", "o", "n", "s">>),
    Piece(<<"-", " ", "L", "o", "n", "g", " ", "d", "i", "v", "i", "s", "i",
            "o", "n">>, "topic", <<"L", "o", "n", "g", " ", "d", "i", "v",
            "i", "s", "i", "o", "n">>),
    Piece(<<"*", " ", "D", "e", "c", "i", "m", "a", "l", "s", " ", " ">>,
            "topic", <<"D", "e", "c", "i", "m", "a", "l", "s">>),
    Piece(<<"bullet", "\t", "R", "a", "t", "i", "o", "s">>, "topic", <<"R",
            "a", "t", "i", "o", "s">>),
    Piece(<<" ", " ", "G", "e", "o", "m", "e", "t", "r", "y">>, "topic",
            <<"G", "e", "o", "m", "e", "t", "r", "y">>),
    Piece(<<"-", "A", "l", "g", "e", "b", "r", "a">>, "topic", <<"A", "l",
            "g", "e", "b", "r", "a">>),
    Piece(<<"g", "r", "e", "a", "t", "!">>, "topic", <<"g", "r", "e", "a",
            "t", "!">>),
    Piece(<<"-", " ">> \o Xs(MaxTopicLen - 1), "topic", Xs(MaxTopicLen - 1)),
    Piece(<<"-", " ">> \o Xs(MaxTopicLen), "long", <<>>),
    Piece(<<>>, "skip", <<>>),
    Piece(<<" ", "\t", " ">>, "skip", <<>>),
    Piece(<<"*", "bullet", "-">>, "skip", <<>>),
    Piece(<<"Y", "o", "u", "'", "r", "e", " ", "d", "o", "i", "n", "g", " ",
            "g", "r", "e", "a", "t", "!">>, "stop", <<>>),
    Piece(<<"K", "e", "e", "p", " ", "i", "t", " ", "u", "p", "!">>, "stop",
            <<>>),
    Piece(<<"|", " ", "T", "o", "p", "i", "c", " ", "|", " ", "S", "c", "o",
            "r", "e", " ", "|">>, "stop", <<>>),
    Piece(<<"2", ")", " ", "R", "e", "v", "i", "e", "w", " ", "n", "o", "t",
            "e", "s">>, "stop", <<>>),
    Piece(<<"3", ".", " ", "R", "E", "C", "O", "M", "M", "E", "N", "D", "A",
            "T", "I", "O", "N", "S">>, "stop", <<>>) }

MaxLines == 2

RECURSIVE JoinLines(_)
JoinLines(pieces) ==
  IF pieces = <<>> THEN <<>>
  ELSE IF Len(pieces) = 1 THEN pieces[1].text
  ELSE pieces[1].text \o <<"\n">> \o JoinLines(Tail(pieces))

\* The topics of the topic lines before the first stop line, in order.
RECURSIVE TopicsBeforeStop(_)
TopicsBeforeStop(pieces) ==
  IF pieces = <<>> \/ pieces[1].role = "stop" THEN <<>>
  ELSE IF pieces[1].role = "topic"
  THEN <<pieces[1].topic>> \o TopicsBeforeStop(Tail(pieces))
  ELSE TopicsBeforeStop(Tail(pieces))

AnalysisSample(preamble, header, pieces) ==
  [kind |-> "analysis",
   text |-> preamble \o header.text \o JoinLines(pieces),
   start |-> "other", neg |-> FALSE, pos |-> FALSE,
   found |-> header.found, pieces |-> pieces,
   expect |-> IF header.found THEN TopicsBeforeStop(pieces) ELSE <<>>]

PieceOf(text) == CHOOSE x \in Pieces : x.text = text

Text_NamedAnalysis ==
  <<"A", "R", "E", "A", "S", " ", "F", "O", "R", " ", "I", "M", "P", "R",
    "O", "V", "E", "M", "E", "N", "T", ":", "\n", "-", " ", "A", "d", "d",
    "i", "n", "g", " ", "f", "r", "a", "c", "t", "i", "o", "n", "s", "\n",
    "-", " ", "L", "o", "n", "g", " ", "d", "i", "v", "i", "s", "i", "o",
    "n", "\n", "\n", "Y", "o", "u", "'", "r", "e", " ", "d", "o", "i", "n",
    "g", " ", "g", "r", "e", "a", "t", "!">>

NamedLines ==
  << PieceOf(<<"-", " ", "A", "d", "d", "i", "n", "g", " ", "f", "r", "a",
    "c", "t", "i", "o", "n", "s">>), PieceOf(<<"-", " ", "L", "o", "n", "g",
    " ", "d", "i", "v", "i", "s", "i", "o", "n">>),
     PieceOf(<<>>), PieceOf(<<"Y", "o", "u", "'", "r", "e", " ", "d", "o",
               "i", "n", "g", " ", "g", "r", "e", "a", "t", "!">>) >>

NamedAnalysis ==
  { AnalysisSample(<<>>, Header(<<"A", "R", "E", "A", "S", " ", "F", "O",
                     "R", " ", "I", "M", "P", "R", "O", "V", "E", "M", "E",
                     "N", "T", ":", "\n">>, TRUE),
                   NamedLines),
    AnalysisSample(<<>>, Header(<<>>, FALSE), <<>>),
    AnalysisSample(<<>>, Header(<<" ", "\n", " ">>, FALSE), <<>>) }

LineSeqs == UNION { [1..n -> Pieces] : n \in 0..MaxLines }

AnalysisSamples ==
  NamedAnalysis
    \cup { AnalysisSample(<<>>, header, pieces) :
             header \in Headers, pieces \in LineSeqs }
    \cup { AnalysisSample(preamble, header, pieces) :
             preamble \in Preambles, header \in Headers,
             pieces \in [1..1 -> Pieces] }

Samples == FeedbackSamples \cup AnalysisSamples

BoolStr(b) == IF b THEN "True" ELSE "False"

\* save_practice_result computes is_correct from the feedback.
ClassifyFeedback ==
  /\ sample.kind = "feedback"
  /\ out.db = "none"
  /\ out' = [out EXCEPT !.db = BoolStr(IsCorrect(sample.text))]
  /\ UNCHANGED <<sample, view, dbVars>>

\* evaluate_answer computes is_correct from the feedback.
EvaluateAnswer ==
  /\ sample.kind = "feedback"
  /\ out.eval = "none"
  /\ out' = [out EXCEPT !.eval = BoolStr(EvaluateIsCorrect(sample.text))]
  /\ UNCHANGED <<sample, view, dbVars>>

\* _extract_weak_areas_from_analysis(analysis_text)
ExtractWeakAreasFromAnalysis ==
  /\ sample.kind = "analysis"
  /\ ~out.extracted
  /\ out' = [out EXCEPT !.extracted = TRUE,
                        !.weak_areas = ExtractWeakAreas(sample.text)]
  /\ UNCHANGED <<sample, view, dbVars>>

InitText == InitDb /\ sample \in Samples /\ out = NoOut /\ view = NoView

NextText ==
  \/ ClassifyFeedback
  \/ EvaluateAnswer
  \/ ExtractWeakAreasFromAnalysis

SpecText == InitText /\ [][NextText]_vars

\* ------------------------------------------------- weak topics and progress
\* What get_weak_topics_history and get_student_weak_topics_with_progress
\* read: the paper_analysis rows of the student, newest first, and the
\* student_progress rows of the student.
MaxAnalyses == 2

SubjectMath == <<"M", "a", "t", "h">>
SubjectScience == <<"S", "c", "i", "e", "n", "c", "e">>
Topic_AddingFractions == <<"A", "d", "d", "i", "n", "g", " ", "f", "r", "a",
                           "c", "t", "i", "o", "n", "s">>
Topic_LongDivision == <<"L", "o", "n", "g", " ", "d", "i", "v", "i", "s",
                        "i", "o", "n">>

Text_TwoTopics ==
  <<"A", "R", "E", "A", "S", " ", "F", "O", "R", " ", "I", "M", "P", "R",
    "O", "V", "E", "M", "E", "N", "T", ":", "\n", "-", " ", "A", "d", "d",
    "i", "n", "g", " ", "f", "r", "a", "c", "t", "i", "o", "n", "s", "\n",
    "-", " ", "L", "o", "n", "g", " ", "d", "i", "v", "i", "s", "i", "o",
    "n">>
Text_OneTopic ==
  <<"A", "r", "e", "a", "s", " ", "f", "o", "r", " ", "i", "m", "p", "r",
    "o", "v", "e", "m", "e", "n", "t", ":", "\n", "*", " ", "A", "d", "d",
    "i", "n", "g", " ", "f", "r", "a", "c", "t", "i", "o", "n", "s", "\n",
    "\n", "K", "e", "e", "p", " ", "g", "o", "i", "n", "g", "!">>
Text_SameTopicTwice ==
  <<"A", "R", "E", "A", "S", " ", "F", "O", "R", " ", "I", "M", "P", "R",
    "O", "V", "E", "M", "E", "N", "T", ":", "\n", "-", " ", "A", "d", "d",
    "i", "n", "g", " ", "f", "r", "a", "c", "t", "i", "o", "n", "s", "\n",
    "-", " ", "A", "d", "d", "i", "n", "g", " ", "f", "r", "a", "c", "t",
    "i", "o", "n", "s">>

AnalysisTexts == {<<>>, Text_TwoTopics, Text_OneTopic, Text_SameTopicTwice}

\* The topics each of the texts lists, as written in it.
ListedTopics(analysis_text) ==
  IF analysis_text = Text_TwoTopics
  THEN <<Topic_AddingFractions, Topic_LongDivision>>
  ELSE IF analysis_text = Text_OneTopic THEN <<Topic_AddingFractions>>
  ELSE IF analysis_text = Text_SameTopicTwice
  THEN <<Topic_AddingFractions, Topic_AddingFractions>>
  ELSE <<>>

AnalysisRow(subject, analysis_text) ==
  [subject |-> subject, analysis_by_model |-> analysis_text]

AnalysisRows ==
  { AnalysisRow(subject, t) :
      subject \in {SubjectMath, SubjectScience}, t \in AnalysisTexts }

\* (attempts, correct_attempts) of a student_progress row.
Tallies ==
  { <<1, 0>>, <<1, 1>>, <<2, 1>>, <<3, 2>>, <<10, 6>>, <<10, 7>>, <<20, 13>>,
    <<200, 139>>, <<200, 140>>, <<203, 142>> }

DashRow(subject, topic, tally) ==
  [subject |-> subject, topic |-> topic, attempts |-> tally[1],
   correct_attempts |-> tally[2]]

\* The tables hold no row, a row for one topic, or rows for two.
ProgressTables ==
  { <<>> }
    \cup { <<DashRow(SubjectMath, Topic_AddingFractions, t)>> :
             t \in Tallies }
    \cup { <<DashRow(SubjectScience, Topic_LongDivision, <<3, 3>>),
             DashRow(SubjectMath, Topic_AddingFractions, t)>> :
             t \in {<<1, 1>>, <<203, 142>>} }

\* The entries one analysis adds to weak_topics.
RECURSIVE WeakTopicEntries(_, _, _)
WeakTopicEntries(analysis_id, subject, weak_areas) ==
  IF weak_areas = <<>> THEN <<>>
  ELSE <<[analysis_id |-> analysis_id, subject |-> subject,
          weak_area |-> Head(weak_areas)]>>
         \o WeakTopicEntries(analysis_id, subject, Tail(weak_areas))

\* The loop of get_weak_topics_history over the rows from row k on; the id
\* of a row is its place in the result of the query.
RECURSIVE WeakTopicsHistory(_, _)
WeakTopicsHistory(results, k) ==
  IF k > Len(results) THEN <<>>
  ELSE LET analysis_text == results[k].analysis_by_model IN
       (IF analysis_text # <<>>
        THEN WeakTopicEntries(k, results[k].subject,
                              ExtractWeakAreas(analysis_text))
        ELSE <<>>)
         \o WeakTopicsHistory(results, k + 1)

\* topic_key = f"{subject}:{topic}"
TopicKey(subject, topic) == subject \o <<":">> \o topic

IsSeen_Never(topic_key, seen_topics) == FALSE

\* topic_key in seen_topics
IsSeen(topic_key, seen_topics) == topic_key \in seen_topics

\* cursor.fetchone() of the progress query: a row of the (subject, topic), or
\* no row.
FetchProgress(rows, subject, topic) ==
  LET ids == {i \in 1..Len(rows) :
                rows[i].subject = subject /\ rows[i].topic = topic}
  IN IF ids = {} THEN [found |-> FALSE, attempts |-> 0,
    correct_attempts |-> 0]
     ELSE [found |-> TRUE, attempts |-> rows[MinOf(ids)].attempts,
           correct_attempts |-> rows[MinOf(ids)].correct_attempts]

Accuracy_Truncated(correct_attempts, attempts) ==
  IF attempts > 0 THEN (1000 * correct_attempts) \div attempts ELSE 0

\* round((correct_attempts / attempts) * 100, 1) if attempts > 0 else 0, in
\* tenths of a percent; a value halfway between two tenths goes to the even
\* one.
Accuracy(correct_attempts, attempts) ==
  IF attempts > 0
  THEN LET q == (1000 * correct_attempts) \div attempts
           r == (1000 * correct_attempts) % attempts
       IN IF 2 * r > attempts \/ (2 * r = attempts /\ q % 2 = 1)
          THEN q + 1 ELSE q
  ELSE 0

\* 'Improving' if accuracy >= 70 else 'Needs Practice'
Status(accuracy) == IF accuracy >= 700 THEN "Improving" ELSE "Needs Practice"

\* The entry appended for a topic.
TopicEntry(subject, topic, progress_row) ==
  IF progress_row.found
  THEN LET accuracy == Accuracy(progress_row.correct_attempts,
                                progress_row.attempts)
       IN [subject |-> subject, topic |-> topic,
           attempts |-> progress_row.attempts,
           correct_attempts |-> progress_row.correct_attempts,
           accuracy |-> accuracy, status |-> Status(accuracy)]
  ELSE [subject |-> subject, topic |-> topic, attempts |-> 0,
        correct_attempts |-> 0, accuracy |-> 0, status |-> "Not Started"]

\* The loop of get_student_weak_topics_with_progress from entry k on.
RECURSIVE TopicsWithProgress(_, _, _, _)
TopicsWithProgress(weak_topics, rows, k, seen_topics) ==
  IF k > Len(weak_topics) THEN <<>>
  ELSE LET topic == weak_topics[k].weak_area
           subject == weak_topics[k].subject
           topic_key == TopicKey(subject, topic)
       IN IF IsSeen(topic_key, seen_topics)
          THEN TopicsWithProgress(weak_topics, rows, k + 1, seen_topics)
          ELSE <<TopicEntry(subject, topic,
                            FetchProgress(rows, subject, topic))>>
                 \o TopicsWithProgress(weak_topics, rows, k + 1,
                                       seen_topics \cup {topic_key})

\* get_weak_topics_history(student_id)
GetWeakTopicsHistory ==
  /\ ~view.have_history
  /\ view' = [view EXCEPT !.have_history = TRUE,
                          !.weak_topics = WeakTopicsHistory(view.analyses, 1)]
  /\ UNCHANGED <<sample, out, dbVars>>

\* get_student_weak_topics_with_progress(student_id); when the connection
\* or a query fails the method returns the empty list.
GetStudentWeakTopicsWithProgress(failed) ==
  /\ ~view.have_progress
  /\ view' =
       [view EXCEPT
          !.have_progress = TRUE,
          !.failed = failed,
          !.topics_with_progress =
             IF failed THEN <<>>
             ELSE TopicsWithProgress(WeakTopicsHistory(view.analyses, 1),
                                     view.rows, 1, {})]
  /\ UNCHANGED <<sample, out, dbVars>>

InitDash ==
  /\ InitDb
  /\ ~init0.row.exists
  /\ sample = NoSample
  /\ out = NoOut
  /\ \E analyses \in UNION { [1..n -> AnalysisRows] : n \in 0..MaxAnalyses },
        rows \in ProgressTables :
       view = [NoView EXCEPT !.analyses = analyses, !.rows = rows]

NextDash ==
  \/ GetWeakTopicsHistory
  \/ \E failed \in BOOLEAN : GetStudentWeakTopicsWithProgress(failed)

SpecDash == InitDash /\ [][NextDash]_vars

\* ================================================================== claims
\* Number of badge rows in a per-name count h.
RECURSIVE SumBadges(_, _)
SumBadges(h, i) == IF i = 0 THEN 0 ELSE h[BadgeOrder[i]] + SumBadges(h, i - 1)

BadgeCount(h) == SumBadges(h, Len(BadgeOrder))

Quiescent == \A p \in Procs : pc[p] \in {"idle", "done"}

\* C1: whenever the stored totalPoints is non-negative, the stored level is
\* floor(totalPoints / 100) + 1, in every state reached by any interleaving
\* of add_points calls.
C1_LevelDerived ==
  \A s \in Students :
    (gam[s].exists /\ gam[s].total_points >= 0)
      => gam[s].level = (gam[s].total_points \div 100) + 1

C1_Witness ==
  /\ gam["s1"].exists
  /\ calls > 0
  /\ init0.row.exists
  /\ init0.row.level = 1
  /\ gam["s1"].total_points = 105
  /\ gam["s1"].level = 2

\* C2: a (student, badge name) pair is recorded at most once: a call that
\* finds the badge already held puts no second row on its award list, and a
\* call into which no failure was injected returns True.
C2_BadgeOnce ==
  /\ \A s \in Students, b \in BadgeNames : badges[s][b] <= 1
  /\ \A p \in Procs :
       /\ \A i \in 1..Len(award[p]) : badges[op[p].student][award[p][i]] = 0
       /\ \A b \in BadgeNames :
            tx[p].badges[b] > 0 => badges[op[p].student][b] = 0
       /\ (pc[p] = "done" /\ ~faulted[p]) => ret[p] = "True"

\* A call ran its badge check with Century already held and the threshold
\* still met, and awards nothing.
C2_Witness ==
  \E p \in Procs :
    /\ pc[p] = "ap_commit"
    /\ conn[p] = "ok"
    /\ tx[p].row.exists
    /\ tx[p].row.total_points >= 100
    /\ tx[p].badges = NoBadges
    /\ badges[op[p].student]["Century"] = 1
    /\ init0.badges["Century"] = 0

\* C3: once all calls have completed and none failed, totalPoints is the
\* initial value plus the sum of the points of all calls, whatever the
\* interleaving of their reads and writes.
C3_NoLostUpdate ==
  \A s \in Students :
    (Quiescent /\ faults = 0 /\ init0.row.exists)
      => gam[s].total_points = init0.row.total_points + requested[s]

C3_Witness ==
  /\ Quiescent
  /\ raced
  /\ faults = 0
  /\ init0.row.exists
  /\ requested["s1"] = 20
  /\ gam["s1"].total_points = init0.row.total_points + 20

\* C4: under concurrent add_points calls a badge whose threshold is crossed
\* is recorded exactly once: never two rows for a (student, badge name), and
\* once the calls have completed the badge of every met threshold is there.
C4_BadgeExactlyOnce ==
  \A s \in Students, b \in BadgeNames :
    /\ badges[s][b] < 2
    /\ (Quiescent /\ gam[s].exists
          /\ BadgeRule(b, gam[s].total_points, gam[s].level,
                       gam[s].current_streak))
         => badges[s][b] = 1

C4_Witness ==
  /\ Quiescent
  /\ raced
  /\ calls = 2
  /\ init0.badges["Century"] = 0
  /\ badges["s1"]["Century"] = 1
  /\ gam["s1"].total_points = 115

\* C5: every committed ProgressRecord has 0 <= correctAttempts <= attempts.
C5_CorrectWithinAttempts ==
  \A i \in 1..Len(progress) :
    /\ 0 <= progress[i].correct_attempts
    /\ progress[i].correct_attempts <= progress[i].attempts

\* A record after a correct and an incorrect attempt.
C5_Witness ==
  \E i \in 1..Len(progress) :
    progress[i].attempts = 2 /\ progress[i].correct_attempts = 1

\* C6: a persistence failure at any step of add_points fails the whole call:
\* the points update is never committed without the badges it earned, and a
\* call in which a step failed does not report success.
C6_AtomicFailure ==
  [][/\ \A s \in Students, b \in BadgeNames :
          (gam'[s].exists
             /\ BadgeRule(b, gam'[s].total_points, gam'[s].level,
                          gam'[s].current_streak))
            => badges'[s][b] >= 1
     /\ \A p \in Procs :
          (kind[p] = "add_points" /\ pc[p] \notin {"idle", "done"}
             /\ pc'[p] = "done" /\ faulted'[p])
            => ret'[p] # "True"]_vars

\* C7: add_points with points <= 0 is rejected and leaves the profile, the
\* badges and the notifications unchanged.
C7_RejectNonPositive ==
  [][\A p \in Procs :
       (kind[p] = "add_points" /\ pc[p] \notin {"idle", "done"}
          /\ pc'[p] = "done" /\ op[p].points <= 0)
         => /\ ret'[p] # "True"
            /\ gam' = gam
            /\ badges' = badges
            /\ notifications' = notifications]_vars

\* C8: add_points (with points > 0) for a student without a profile creates
\* it and applies the update: after the call the profile exists with
\* totalPoints = points and currentStreak = 1.
C8_CreatesProfile ==
  [][\A p \in Procs :
       (kind[p] = "add_points" /\ pc[p] = "ap_commit" /\ pc'[p] = "done"
          /\ ~faulted'[p] /\ op[p].points > 0
          /\ ~rd[p].exists /\ ~gam[op[p].student].exists)
         => /\ gam'[op[p].student].exists
            /\ gam'[op[p].student].total_points = op[p].points
            /\ gam'[op[p].student].current_streak = 1]_vars

\* C9: across an add_points call currentStreak goes from the value the call
\* read to that value plus 1, to 1, or stays: the value the call stores is
\* never lower than the value it read unless it is 1.
C9_StreakStep ==
  [][\A p \in Procs :
       (pc[p] = "ap_commit" /\ pc'[p] \in {"done", "sp_commit"}
          /\ rd[p].exists /\ gam'[op[p].student] # gam[op[p].student])
         => LET before == rd[p].current_streak
                after == gam'[op[p].student].current_streak
            IN /\ after \in {before + 1, 1, before}
               /\ (after < before => after = 1)]_vars

\* A call stored streak 1 over a snapshot whose streak was 6.
C9_Witness ==
  /\ init0.row.exists
  /\ init0.row.current_streak = 6
  /\ gam["s1"].current_streak = 1
  /\ gam["s1"].last_activity_date = 2

\* C10: the streak add_points stores is 1 when lastActivityDate is absent,
\* currentStreak + 1 when today is one day after it, currentStreak when
\* today equals it (the points still change), and 1 when today is more than
\* one day after it.
C10_StreakCases ==
  \A p \in Procs :
    (pc[p] \in {"ap_badges", "ap_award"} /\ tx[p].row.exists)
      => LET last == rd[p].last_activity_date
             stored == tx[p].row.current_streak
         IN /\ last = NoDate => stored = 1
            /\ (last # NoDate /\ td[p] = last + 1)
                 => stored = rd[p].current_streak + 1
            /\ (last # NoDate /\ td[p] = last)
                 => /\ stored = rd[p].current_streak
                    /\ tx[p].row.total_points =
                         gam[op[p].student].total_points + op[p].points
            /\ (last # NoDate /\ td[p] > last + 1) => stored = 1

\* A second call on the day of the last activity: points change, streak
\* does not.
C10_Witness ==
  \E p \in Procs :
    /\ pc[p] = "ap_badges"
    /\ calls >= 2
    /\ rd[p].last_activity_date = td[p]
    /\ rd[p].current_streak = 7
    /\ tx[p].row.current_streak = 7
    /\ op[p].points = 10
    /\ tx[p].row.total_points = gam[op[p].student].total_points + 10

\* C11 as claimed: a call whose today is earlier than the lastActivityDate
\* it read stores currentStreak = 1.
C11_BackdatedResets ==
  \A p \in Procs :
    (pc[p] \in {"ap_badges", "ap_award"} /\ tx[p].row.exists
       /\ rd[p].last_activity_date # NoDate
       /\ td[p] < rd[p].last_activity_date)
      => tx[p].row.current_streak = 1

\* C11 as amended: a call whose today is earlier than the lastActivityDate
\* it read stores the currentStreak it read, unchanged (days_diff < 0 takes
\* neither branch), and still moves lastActivityDate back to today.
C11_BackdatedKeeps ==
  \A p \in Procs :
    (pc[p] \in {"ap_badges", "ap_award"} /\ tx[p].row.exists
       /\ rd[p].last_activity_date # NoDate
       /\ td[p] < rd[p].last_activity_date)
      => /\ tx[p].row.current_streak = rd[p].current_streak
         /\ tx[p].row.last_activity_date = td[p]

\* A backdated call on a streak of 6 keeps 6.
C11_Witness ==
  \E p \in Procs :
    /\ pc[p] = "ap_badges"
    /\ td[p] < rd[p].last_activity_date
    /\ rd[p].current_streak = 6
    /\ tx[p].row.current_streak = 6

\* C12: longestStreak >= currentStreak in every committed and every written
\* row, and the longestStreak a call writes is the maximum of the
\* longestStreak it read and the currentStreak it writes.
C12_LongestAtLeastCurrent ==
  /\ \A s \in Students :
       gam[s].exists => gam[s].longest_streak >= gam[s].current_streak
  /\ \A p \in Procs :
       (pc[p] \in {"ap_badges", "ap_award"} /\ tx[p].row.exists)
         => /\ tx[p].row.longest_streak >= tx[p].row.current_streak
            /\ tx[p].row.longest_streak >= rd[p].longest_streak
            /\ tx[p].row.longest_streak
                 \in {rd[p].longest_streak, tx[p].row.current_streak}

\* A call raised the streak from 6 to 7 and the longest streak with it.
C12_Witness ==
  /\ init0.row.exists
  /\ init0.row.longest_streak = 6
  /\ gam["s1"].current_streak = 7
  /\ gam["s1"].longest_streak = 7

\* C13: when an add_points call commits, the student holds every badge whose
\* rule the committed snapshot meets, and each such badge that was missing
\* before the commit was inserted by this call.
C13_AllBadgesSameCall ==
  [][\A p \in Procs :
       (pc[p] = "ap_commit" /\ pc'[p] \in {"done", "sp_commit"})
         => LET s == op[p].student IN
            \A b \in BadgeNames :
              (gam'[s].exists
                 /\ BadgeRule(b, gam'[s].total_points, gam'[s].level,
                              gam'[s].current_streak))
                => /\ badges'[s][b] >= 1
                   /\ badges[s][b] = 0 => tx[p].badges[b] = 1]_vars

\* 95 points and streak 6, plus 10 points on the next day: 105 points,
\* level 2, streak 7, Century and Week Warrior from the one call.
C13_Witness ==
  /\ calls = 1
  /\ init0.row.exists
  /\ init0.row.total_points = 95
  /\ gam["s1"].total_points = 105
  /\ gam["s1"].level = 2
  /\ gam["s1"].current_streak = 7
  /\ badges["s1"]["Century"] = 1
  /\ badges["s1"]["Week Warrior"] = 1

\* C14: the achievement notifications committed for a student are as many
\* as the badges recorded for the student since the snapshot.
C14_NotificationPerBadge ==
  \A s \in Students :
    notifications[s] = BadgeCount(badges[s]) - BadgeCount(init0.badges)

\* Two badges, two notifications.
C14_Witness ==
  /\ BadgeCount(badges["s1"]) = 2
  /\ notifications["s1"] = 2
  /\ \A p \in Procs : pc[p] \in {"idle", "done"}

\* C15: totalPoints is never negative, and the total a call writes is the
\* committed total plus its points.
C15_NonNegativeTotal ==
  /\ \A s \in Students : gam[s].exists => gam[s].total_points >= 0
  /\ \A p \in Procs :
       (pc[p] \in {"ap_badges", "ap_award"} /\ tx[p].row.exists)
         => tx[p].row.total_points =
              gam[op[p].student].total_points + op[p].points

\* The rules of the classifier on the way a text was put together.
Classify(s) ==
  IF s.start = "correct" THEN TRUE
  ELSE IF s.start = "partially" THEN FALSE
  ELSE IF s.start \in {"incorrect", "wrong"} THEN FALSE
  ELSE IF s.neg THEN FALSE
  ELSE IF s.pos THEN TRUE
  ELSE FALSE

\* C16: both copies of the classifier give the result of the rules taken in
\* priority order on the trimmed, lower-cased feedback (starts with "correct":
\* true; starts with "partially": false; starts with "incorrect" or "wrong":
\* false; a negative phrase at word boundaries: false; a positive phrase at
\* word boundaries: true; otherwise false); "CORRECT! Great job." is true,
\* "Incorrect, the answer is 5." and "Partially right, missing a step." are
\* false.
C16_ClassifierPriority ==
  /\ out.db # "none" => out.db = BoolStr(Classify(sample))
  /\ out.eval # "none" => out.eval = BoolStr(Classify(sample))
  /\ out.db # "none" /\ out.eval # "none" => out.db = out.eval
  /\ \A r \in {out.db, out.eval} \ {"none"} :
       /\ sample.text = Text_CorrectGreatJob => r = "True"
       /\ sample.text = Text_IncorrectAnswer => r = "False"
       /\ sample.text = Text_PartiallyRight => r = "False"

C16_Witness ==
  /\ sample.text = Text_CorrectGreatJob
  /\ out.db = "True"
  /\ out.eval = "True"

\* C17 (as stated): "not entirely correct but well done" is classified false.
C17_NotEntirelyIsFalse ==
  sample.text = Text_NotEntirely
    => out.db \in {"none", "False"} /\ out.eval \in {"none", "False"}

\* C17: a text that starts with none of the marker words and holds both a
\* negative and a positive phrase at word boundaries, such as "not correct but
\* well done", is classified false, the negative check running first; "not
\* entirely correct but well done" holds no negative phrase and is classified
\* true.
C17_NegativeBeforePositive ==
  \A r \in {out.db, out.eval} \ {"none"} :
    /\ (sample.start = "other" /\ sample.neg /\ sample.pos) => r = "False"
    /\ sample.text = Text_NotCorrect => r = "False"
    /\ sample.text = Text_NotEntirely => r = "True"

C17_Witness ==
  /\ sample.text = Text_NotCorrect
  /\ sample.neg /\ sample.pos
  /\ out.db = "False"
  /\ out.eval = "False"

\* C18: for a text with an AREAS FOR IMPROVEMENT section the extractor
\* returns, in order, the bullet-stripped trimmed text of every line of the
\* section that is not blank, not made of bullet glyphs only, comes before the
\* first stop line and is non-empty and shorter than 100 characters once
\* stripped; for the text "AREAS FOR IMPROVEMENT:", "- Adding fractions",
\* "- Long division", "", "You're doing great!" it returns "Adding fractions"
\* and "Long division".
C18_ExtractorOutput ==
  out.extracted =>
    /\ sample.found => out.weak_areas = sample.expect
    /\ sample.text = Text_NamedAnalysis
         => out.weak_areas = <<<<"A", "d", "d", "i", "n", "g", " ", "f", "r",
                               "a", "c", "t", "i", "o", "n", "s">>, <<"L",
                               "o", "n", "g", " ", "d", "i", "v", "i", "s",
                               "i", "o", "n">>>>

C18_Witness ==
  /\ out.extracted
  /\ sample.text = Text_NamedAnalysis
  /\ out.weak_areas = <<<<"A", "d", "d", "i", "n", "g", " ", "f", "r", "a",
                        "c", "t", "i", "o", "n", "s">>, <<"L", "o", "n", "g",
                        " ", "d", "i", "v", "i", "s", "i", "o", "n">>>>

\* C19: the extractor returns a list for every text, the empty list when the
\* text has no AREAS FOR IMPROVEMENT header or the section has no line to
\* keep; the classifier returns false for a text none of its rules matches;
\* each of them has a result for every text, the empty text and the text of
\* white space included.
C19_Total ==
  /\ out.extracted =>
       /\ out.weak_areas \in Seq({sample.expect[i] : i \in 1..Len(sample.expect)})
       /\ ~sample.found => out.weak_areas = <<>>
       /\ sample.expect = <<>> => out.weak_areas = <<>>
  /\ \A r \in {out.db, out.eval} \ {"none"} :
       /\ r \in {"True", "False"}
       /\ (sample.start = "other" /\ ~sample.neg /\ ~sample.pos) => r = "False"

C19_Witness ==
  /\ out.extracted
  /\ ~sample.found
  /\ sample.text # <<>>
  /\ out.weak_areas = <<>>

\* C20: a save_practice_result that commits upserts the record of its
\* (student, subject, topic): having found no record it adds one with
\* attempts 1 and correct_attempts 1 for a feedback classified correct and 0
\* otherwise; having found one it stores that record's attempts plus 1 and
\* its correct_attempts plus 1 or 0 likewise; every other record is left as
\* it was.
C20_Upsert ==
  [][\A p \in Procs :
       (pc[p] = "sp_commit" /\ pc'[p] = "done" /\ ret'[p] = "True")
         => LET inc == IF IsCorrect(sp[p].feedback) THEN 1 ELSE 0
                id == spres[p].id
            IN IF id = 0
               THEN /\ Len(progress') = Len(progress) + 1
                    /\ SubSeq(progress', 1, Len(progress)) = progress
                    /\ LET new == progress'[Len(progress')] IN
                       /\ new.student_id = sp[p].student
                       /\ new.subject = sp[p].subject
                       /\ new.topic = sp[p].topic
                       /\ new.attempts = 1
                       /\ new.correct_attempts = inc
               ELSE /\ Len(progress') = Len(progress)
                    /\ \A j \in 1..Len(progress) :
                         j # id => progress'[j] = progress[j]
                    /\ progress'[id].student_id = sp[p].student
                    /\ progress'[id].subject = sp[p].subject
                    /\ progress'[id].topic = sp[p].topic
                    /\ progress'[id].attempts = spres[p].attempts + 1
                    /\ progress'[id].correct_attempts =
                         spres[p].correct_attempts + inc]_vars

C20_Witness ==
  /\ Len(progress) = 1
  /\ progress[1].attempts = 2
  /\ progress[1].correct_attempts = 1
  /\ progress[1].last_feedback = <<"W", "r", "o", "n", "g", ".">>
  /\ \E p \in Procs : pc[p] = "done" /\ ret[p] = "True"

\* C21: there is at most one progress record per (student, subject, topic),
\* also when two first attempts for a triple are recorded at the same time.
C21_OneRecordPerTriple ==
  \A s \in Students, topic \in Topics :
    Cardinality(ProgressIds(s, Subject, topic)) <= 1

\* C22: every attempt save_practice_result writes is followed by one call of
\* add_points, with 5 points for a feedback classified correct and 2
\* otherwise: the call is made by the step that writes the attempt and by no
\* other step, and the commit of the attempt comes after its return.
C22_OneAwardPerAttempt ==
  [][\A p \in Procs :
       LET ApSteps == {"ap_select", "ap_update", "ap_badges", "ap_award",
                       "ap_commit"}
       IN /\ (pc[p] = "sp_write" /\ pc'[p] # "sp_write")
               => \/ /\ pc'[p] = "done"
                     /\ ret'[p] = "False"
                     /\ requested' = requested
                  \/ /\ pc'[p] = "ap_select"
                     /\ ptx'[p].kind \in {"insert", "update"}
                     /\ op'[p].student = sp[p].student
                     /\ op'[p].points =
                          IF IsCorrect(sp[p].feedback) THEN 5 ELSE 2
                     /\ requested'[sp[p].student] =
                          requested[sp[p].student] + op'[p].points
          /\ kind[p] = "save_practice_result"
               => /\ pc'[p] = "ap_select"
                       => pc[p] \in {"sp_write", "ap_select"}
                  /\ (pc[p] \in ApSteps /\ pc'[p] \in ApSteps)
                       => op'[p] = op[p]
                  /\ pc'[p] = "sp_commit"
                       => pc[p] \in ApSteps \cup {"sp_commit"}
                  /\ pc[p] = "sp_commit"
                       => pc'[p] \in {"sp_commit", "done"}]_vars

C22_Witness ==
  \E p \in Procs :
    /\ kind[p] = "save_practice_result"
    /\ pc[p] = "sp_commit"
    /\ ptx[p].kind = "update"
    /\ ~sp[p].is_correct
    /\ init0.row.exists
    /\ gam[sp[p].student].total_points = init0.row.total_points + 5 + 2

\* The progress rows of a (subject, topic) in the tables a query read.
RowsOf(subject, topic) ==
  {i \in 1..Len(view.rows) :
     view.rows[i].subject = subject /\ view.rows[i].topic = topic}

\* The weak topics of the analyses a query read, as (subject, topic) pairs.
KnownTopics ==
  LET h == WeakTopicsHistory(view.analyses, 1)
  IN {<<h[k].subject, h[k].weak_area>> : k \in 1..Len(h)}

\* C23 (as stated): a weak topic with no progress record is "Not Started", one
\* whose correct_attempts / attempts * 100 is at least 70 is "Improving", and
\* one below 70 is "Needs Practice".
C23_StatusByAccuracy ==
  \A i \in 1..Len(view.topics_with_progress) :
    LET e == view.topics_with_progress[i]
        ids == RowsOf(e.subject, e.topic)
    IN IF ids = {} THEN e.status = "Not Started"
       ELSE \A id \in ids :
              LET row == view.rows[id] IN
              e.status = IF 100 * row.correct_attempts >= 70 * row.attempts
                         THEN "Improving" ELSE "Needs Practice"

\* C23: every known weak topic has an entry; its status is "Not Started" with
\* no progress record, and otherwise "Improving" when the accuracy rounded to
\* one decimal is at least 70.0, which is a raw accuracy of 69.95 or more,
\* and "Needs Practice" below that.
C23_StatusByRoundedAccuracy ==
  (view.have_progress /\ ~view.failed) =>
    /\ KnownTopics =
         { <<view.topics_with_progress[i].subject,
             view.topics_with_progress[i].topic>> :
             i \in 1..Len(view.topics_with_progress) }
    /\ \A i \in 1..Len(view.topics_with_progress) :
         LET e == view.topics_with_progress[i]
             ids == RowsOf(e.subject, e.topic)
         IN IF ids = {} THEN e.status = "Not Started"
            ELSE \A id \in ids :
                   LET row == view.rows[id] IN
                   e.status =
                     IF 2000 * row.correct_attempts >= 1399 * row.attempts
                     THEN "Improving" ELSE "Needs Practice"

C23_Witness ==
  /\ view.have_progress
  /\ \E i \in 1..Len(view.topics_with_progress) :
       LET e == view.topics_with_progress[i] IN
       /\ e.attempts = 203
       /\ e.correct_attempts = 142
       /\ e.accuracy = 700
       /\ e.status = "Improving"
  /\ \E i \in 1..Len(view.topics_with_progress) :
       view.topics_with_progress[i].status = "Not Started"

\* C24: get_weak_topics_history keeps every topic of every analysis, in the
\* order of the analyses, so a topic named once in each of several analyses
\* has one entry per analysis; get_student_weak_topics_with_progress returns
\* one entry per (subject, topic), for its first entry in the history, in the
\* order of the history.
C24_CallerDeduplicates ==
  LET h == WeakTopicsHistory(view.analyses, 1)
      EntriesOf(k) == SelectSeq(h, LAMBDA e : e.analysis_id = k)
      first == {k \in 1..Len(h) :
                  \A j \in 1..(k - 1) :
                    h[j].subject # h[k].subject
                      \/ h[j].weak_area # h[k].weak_area}
      result == view.topics_with_progress
  IN /\ view.have_history =>
          /\ view.weak_topics = h
          /\ \A j \in 1..(Len(h) - 1) :
               h[j].analysis_id <= h[j + 1].analysis_id
          /\ \A j \in 1..Len(h) : h[j].analysis_id \in 1..Len(view.analyses)
          /\ \A k \in 1..Len(view.analyses) :
               LET listed == ListedTopics(view.analyses[k].analysis_by_model)
                   entries == EntriesOf(k)
               IN /\ Len(entries) = Len(listed)
                  /\ \A j \in 1..Len(entries) :
                       /\ entries[j].weak_area = listed[j]
                       /\ entries[j].subject = view.analyses[k].subject
     /\ (view.have_progress /\ ~view.failed) =>
          /\ Len(result) = Cardinality(first)
          /\ \A k \in first :
               LET i == Cardinality({j \in first : j <= k}) IN
               /\ result[i].subject = h[k].subject
               /\ result[i].topic = h[k].weak_area

C24_Witness ==
  /\ view.have_history
  /\ view.have_progress
  /\ Len(view.analyses) = 2
  /\ view.analyses[1].subject = view.analyses[2].subject
  /\ Len(view.weak_topics) = 3
  /\ view.weak_topics[1].weak_area = Topic_AddingFractions
  /\ view.weak_topics[3].weak_area = Topic_AddingFractions
  /\ view.weak_topics[1].analysis_id # view.weak_topics[3].analysis_id
  /\ Len(view.topics_with_progress) = 2

\* C25: the extractor stops at the first stop line of the section (a line
\* that starts with "You're", ends with "!" after a capitalized word, starts
\* with "|", or is a numbered recommendation) and returns nothing of that
\* line or of a later one; the topics before it are kept; a line of 100
\* characters or more is left out and the lines after it are still read.
C25_StopsAtFirstStopLine ==
  (out.extracted /\ sample.found) =>
    LET ps == sample.pieces
        stops == {i \in 1..Len(ps) : ps[i].role = "stop"}
        last == IF stops = {} THEN Len(ps) ELSE MinOf(stops) - 1
        kept == {i \in 1..last : ps[i].role = "topic"}
        Returned == {out.weak_areas[i] : i \in 1..Len(out.weak_areas)}
    IN /\ Len(out.weak_areas) = Cardinality(kept)
       /\ \A i \in kept : ps[i].topic \in Returned
       /\ \A i \in 1..Len(ps) :
            ps[i].role = "stop" => Strip(ps[i].text) \notin Returned
       /\ \A i \in (last + 1)..Len(ps) :
            (ps[i].role = "topic" /\ \A j \in kept : ps[j].topic # ps[i].topic)
              => ps[i].topic \notin Returned
       /\ \A i \in 1..Len(ps) :
            ps[i].role = "long" =>
              /\ \A x \in Returned : Len(x) < MaxTopicLen
              /\ \A j \in (i + 1)..last :
                   ps[j].role = "topic" => ps[j].topic \in Returned

C25_Witness ==
  /\ out.extracted
  /\ sample.found
  /\ Len(sample.pieces) = 2
  /\ sample.pieces[1].role = "long"
  /\ sample.pieces[2].role = "topic"
  /\ out.weak_areas = <<sample.pieces[2].topic>>

\* The attempts on record for a (student, subject, topic), over all its rows.
RECURSIVE SumAttempts(_, _, _)
SumAttempts(rows, ids, field) ==
  IF ids = {} THEN 0
  ELSE LET i == MinOf(ids)
       IN (IF field = "attempts" THEN rows[i].attempts
           ELSE rows[i].correct_attempts)
            + SumAttempts(rows, ids \ {i}, field)

\* C26: no attempt is lost when calls of save_practice_result for a triple
\* overlap: every call that commits raises the attempts on record for its
\* triple by 1 and the correct attempts by 1 when its feedback is classified
\* correct, so that after n completed calls attempts has grown by n.
C26_NoLostAttempt ==
  [][\A p \in Procs :
       (pc[p] = "sp_commit" /\ pc'[p] = "done" /\ ret'[p] = "True")
         => LET before == ProgressIds(sp[p].student, sp[p].subject,
           sp[p].topic)
                after == {i \in 1..Len(progress') :
                            /\ progress'[i].student_id = sp[p].student
                            /\ progress'[i].subject = sp[p].subject
                            /\ progress'[i].topic = sp[p].topic}
            IN /\ SumAttempts(progress', after, "attempts")
                    = SumAttempts(progress, before, "attempts") + 1
               /\ SumAttempts(progress', after, "correct_attempts")
                    = SumAttempts(progress, before, "correct_attempts")
                        + (IF sp[p].is_correct THEN 1 ELSE 0)]_vars

\* C27: a practice attempt and its points are applied together or not at
\* all: when save_practice_result returns, its record has been stored if and
\* only if its add_points has credited the points.
C27_EventAndPointsTogether ==
  [][\A p \in Procs :
       (kind[p] = "save_practice_result" /\ pc[p] # "done" /\ pc'[p] = "done")
         => (progress' # progress <=> credited[p])]_vars

\* C28: however often and in whatever interleaving evaluate_quiz_attempt is
\* invoked for one attempt, the student's total_points grows by the bonus of
\* a single grading (30, 20, 10 or nothing), never by more.
C28_BonusAtMostOnce ==
  \A s \in Students :
    gam[s].exists =>
      gam[s].total_points - init0.row.total_points
        \in {0} \cup {QuizBonus(score, quiz.total_marks) : score \in Scores}

\* C29: longest_streak never decreases: whatever the interleaving of the
\* add_points calls and whatever dates they observe, no step lowers the
\* stored longest_streak of a student.
C29_LongestStreakMonotone ==
  [][\A s \in Students :
       (gam[s].exists /\ gam'[s].exists)
         => gam'[s].longest_streak >= gam[s].longest_streak]_vars

\* C30: from a freshly initialised profile on, a profile with a
\* last_activity_date has a current_streak of at least 1, and the
\* last_activity_date is the date observed by the add_points call that
\* committed last: the commit of a call stores the date the call observed,
\* and no other step changes the stored date.
C30_ActivityDate ==
  /\ \A s \in Students :
       gam[s].exists /\ gam[s].last_activity_date # NoDate
         => gam[s].current_streak >= 1
  /\ [][\A s \in Students :
          LET Commits(p) ==
                /\ pc[p] = "ap_commit"
                /\ pc'[p] # "ap_commit"
                /\ op[p].student = s
                /\ credited'[p]
          IN /\ gam'[s].exists /\ gam'[s].last_activity_date # NoDate
                  => gam'[s].current_streak >= 1
             /\ \A p \in Procs :
                  Commits(p) => gam'[s].last_activity_date = td[p]
             /\ (gam[s].exists /\ ~ \E p \in Procs : Commits(p))
                  => gam'[s].last_activity_date =
                       gam[s].last_activity_date]_vars

\* A profile created by _initialize_gamification on which two calls of 10
\* points have committed, the last of them having observed day 0.
C30_Witness ==
  /\ ~init0.row.exists
  /\ gam["s1"].exists
  /\ gam["s1"].total_points = 20
  /\ gam["s1"].last_activity_date = 0
  /\ gam["s1"].current_streak >= 1
  /\ \A p \in Procs : pc[p] = "done"

====
